---- MODULE Spec2Model ----
(***************************************************************************)
(* MarkdownEditor (CoreEditor): the decoration fields that hide, replace   *)
(* and style Markdown syntax, and the image / diagram widget fields.       *)
(*                                                                         *)
(* A document is a sequence of lines; every line is one of a small menu of *)
(* Markdown lines whose text is kept character by character, so offsets,   *)
(* line numbers and the regular-expression scans are those of the code.    *)
(* The syntax tree is the pre-order node list that the Markdown parser     *)
(* (lezer-markdown with GFM) yields for these lines.                       *)
(***************************************************************************)
EXTENDS Integers, Sequences, FiniteSets, TLC

\* Longest document, in lines.
MaxLines == 3

\* Longest document, in characters: markers and fenced code; images and
\* diagrams; range selections.
MaxMarkLength == 11

MaxWidgetLength == 18

MaxRangeLength == 8

\* Longest document while the widgets' DOM is followed.
MaxDragLength == 14

\* Longest document while the diagrams' renders are followed.
MaxRenderLength == 16

\* Most renders pending at once: a transaction that would start one more
\* waits until one has settled.
MaxPending == 1

\* Longest document under the formatting commands.
MaxFormatLength == 9

\* Most clicks on checkbox widgets that are followed.
MaxClicks == 2

\* The handles setTimeout hands out, in turn.
TimerIds == 3

\* Longest document with the command palette.
MaxPaletteLength == 4

\* Longest document typed with the keys of the command palette.
MaxKeysLength == 3

\* Longest document a selected item of the palette leaves.
MaxSelectLength == 5

\* Longest document whose change notifications are followed.
MaxNotifyLength == 3

(***************************************************************************)
(* Text                                                                    *)
(***************************************************************************)

\* The backquote character (one atom, as every other character).
BQ == "backquote"

\* The text of each menu line.
LineText(k) ==
  CASE k = "blank"  -> << >>
    [] k = "txt"    -> <<"a">>
    [] k = "slash"  -> <<"/">>
    [] k = "cmd"    -> <<"/", "h">>
    [] k = "h1"     -> <<"#", " ", "T">>
    [] k = "h3"     -> <<"#", "#", "#", " ", "T">>
    [] k = "em"     -> <<"*", "a", "*">>
    [] k = "strike" -> <<"~", "~", "s", "~", "~">>
    [] k = "quote"  -> <<">", " ", "q">>
    [] k = "link"   -> <<"[", "a", "]", "(", "u", ")">>
    [] k = "img"    -> <<"!", "[", "a", "]", "(", "u", ")">>
    [] k = "img2"   -> <<"!", "[", "b", "]", "(", "u", ")">>
    [] k = "code"   -> <<BQ, "c", BQ>>
    [] k = "ul"     -> <<"-", " ", "a">>
    [] k = "ol"     -> <<"1", ".", " ", "a">>
    [] k = "task"   -> <<"-", " ", "[", " ", "]", " ", "a">>
    [] k = "taskx"  -> <<"-", " ", "[", "x", "]", " ", "a">>
    [] k = "hr"     -> <<"-", "-", "-">>
    [] k = "fence"  -> <<BQ, BQ, BQ>>
    [] k = "fjs"    -> <<BQ, BQ, BQ, "j", "s">>
    [] k = "fmer"   -> <<BQ, BQ, BQ, "m", "e", "r", "m", "a", "i", "d">>

AllKinds ==
  {"blank", "txt", "slash", "cmd", "h1", "h3", "em", "strike", "quote", "link", "img", "img2",
   "code", "ul", "ol", "task", "taskx", "hr", "fence", "fjs", "fmer"}

\* Lines that hold inline content only (they open or continue a paragraph).
ParaKinds == {"txt", "slash", "cmd", "em", "strike", "link", "img", "img2", "code"}

\* Lines that open a container block (block quote, list item).
ContainerKinds == {"quote", "ul", "ol", "task", "taskx"}

\* Fence lines that carry an info string.
FenceInfoKinds == {"fjs", "fmer"}

NL == "\n"


\* doc.line(i).from, for every line i of the lines ks
LineStarts(ks) ==
  LET RECURSIVE F(_)
      F(j) == IF j = 0 THEN << >>
              ELSE IF j = 1 THEN << 0 >>
              ELSE LET p == F(j - 1)
                   IN Append(p, p[j - 1] + Len(LineText(ks[j - 1])) + 1)
  IN F(Len(ks))

\* doc.toString()
JoinLines(ks) ==
  LET RECURSIVE T(_)
      T(j) == IF j = 1 THEN LineText(ks[1])
              ELSE T(j - 1) \o <<NL>> \o LineText(ks[j])
  IN T(Len(ks))

\* The document (a Text): its lines, their offsets and its characters.
Text(ks) ==
  LET st == LineStarts(ks)
  IN [kinds |-> ks,
      from  |-> st,
      to    |-> [i \in 1..Len(ks) |-> st[i] + Len(LineText(ks[i]))],
      text  |-> JoinLines(ks)]

\* doc.lines
NumLines(d) == Len(d.kinds)

\* doc.line(i).from
LineFrom(d, i) == d.from[i]

\* doc.line(i).to
LineTo(d, i) == d.to[i]

\* doc.line(i).text
LineTextOf(d, i) == SubSeq(d.text, d.from[i] + 1, d.to[i])

\* doc.length
DocLength(d) == Len(d.text)

\* doc.toString()
DocText(d) == d.text

\* doc.lineAt(pos).number : a position on a line break belongs to the line
\* that ends there.
lineAt(d, pos) ==
  CHOOSE i \in 1..NumLines(d) : d.from[i] <= pos /\ pos <= d.to[i]

\* doc.lineAt(pos) throws a RangeError for a position outside the document.
lineAtThrows(d, pos) == pos < 0 \/ pos > DocLength(d)

\* state.sliceDoc(from, to)
sliceDoc(d, from, to) == SubSeq(d.text, from + 1, to)

(***************************************************************************)
(* Syntax tree: the nodes in the order iterate() enters them (pre-order).  *)
(* Container nodes are produced per line; the builders look only at the    *)
(* name, the range and the parent name of a node.                          *)
(***************************************************************************)

Nd(n, f, t, p) == [name |-> n, from |-> f, to |-> t, parent |-> p]

\* The inline nodes of a line that starts at offset b, below a block p.
InlineNodes(k, b, p) ==
  CASE k = "em" ->
         << Nd("Emphasis", b, b + 3, p),
            Nd("EmphasisMark", b, b + 1, "Emphasis"),
            Nd("EmphasisMark", b + 2, b + 3, "Emphasis") >>
    [] k = "strike" ->
         << Nd("Strikethrough", b, b + 5, p),
            Nd("StrikethroughMark", b, b + 2, "Strikethrough"),
            Nd("StrikethroughMark", b + 3, b + 5, "Strikethrough") >>
    [] k = "link" ->
         << Nd("Link", b, b + 6, p),
            Nd("LinkMark", b, b + 1, "Link"),
            Nd("LinkMark", b + 2, b + 3, "Link"),
            Nd("LinkMark", b + 3, b + 4, "Link"),
            Nd("URL", b + 4, b + 5, "Link"),
            Nd("LinkMark", b + 5, b + 6, "Link") >>
    [] k \in {"img", "img2"} ->
         << Nd("Image", b, b + 7, p),
            Nd("LinkMark", b, b + 2, "Image"),
            Nd("LinkMark", b + 3, b + 4, "Image"),
            Nd("LinkMark", b + 4, b + 5, "Image"),
            Nd("URL", b + 5, b + 6, "Image"),
            Nd("LinkMark", b + 6, b + 7, "Image") >>
    [] k = "code" ->
         << Nd("InlineCode", b, b + 3, p),
            Nd("CodeMark", b, b + 1, "InlineCode"),
            Nd("CodeMark", b + 2, b + 3, "InlineCode") >>
    [] OTHER -> << >>

\* The nodes of a container line (block quote or list item).
ContainerNodes(k, b, e) ==
  CASE k = "quote" ->
         << Nd("Blockquote", b, e, "Document"),
            Nd("QuoteMark", b, b + 1, "Blockquote"),
            Nd("Paragraph", b + 2, e, "Blockquote") >>
    [] k = "ul" ->
         << Nd("BulletList", b, e, "Document"),
            Nd("ListItem", b, e, "BulletList"),
            Nd("ListMark", b, b + 1, "ListItem"),
            Nd("Paragraph", b + 2, e, "ListItem") >>
    [] k = "ol" ->
         << Nd("OrderedList", b, e, "Document"),
            Nd("ListItem", b, e, "OrderedList"),
            Nd("ListMark", b, b + 2, "ListItem"),
            Nd("Paragraph", b + 3, e, "ListItem") >>
    [] k \in {"task", "taskx"} ->
         << Nd("BulletList", b, e, "Document"),
            Nd("ListItem", b, e, "BulletList"),
            Nd("ListMark", b, b + 1, "ListItem"),
            Nd("Task", b + 2, e, "ListItem"),
            Nd("TaskMarker", b + 2, b + 5, "Task") >>

SetTo(out, idx, t) == [out EXCEPT ![idx].to = t]

\* A paragraph that is followed by an underline becomes a Setext heading.
ToSetext(out, idx, e) ==
  [j \in 1..Len(out) |->
     IF j = idx THEN Nd("SetextHeading2", out[idx].from, e, "Document")
     ELSE IF j > idx /\ out[j].parent = "Paragraph"
          THEN [out[j] EXCEPT !.parent = "SetextHeading2"]
          ELSE out[j]]

\* One line of block parsing.  mode: "none", "para" (a top-level paragraph
\* is open), "cont" (a container is open: text is a lazy continuation),
\* "fence" (a fenced code block is open); idx is the open block's node.
ParseStep(d, st, i) ==
  LET k == d.kinds[i]
      b == LineFrom(d, i)
      e == LineTo(d, i)
      closed == [out |-> st.out, mode |-> "none", idx |-> 0]
  IN
  IF st.mode = "fence" THEN
       IF k = "fence"
       THEN [closed EXCEPT !.out = Append(SetTo(st.out, st.idx, e),
                                          Nd("CodeMark", b, e, "FencedCode"))]
       ELSE [st EXCEPT !.out = SetTo(st.out, st.idx, e)]
  ELSE IF k \in ParaKinds THEN
       IF st.mode = "para"
       THEN [st EXCEPT !.out = SetTo(st.out, st.idx, e)
                                 \o InlineNodes(k, b, "Paragraph")]
       ELSE IF st.mode = "cont"
       THEN [st EXCEPT !.out = st.out \o InlineNodes(k, b, "Paragraph")]
       ELSE [out |-> st.out \o << Nd("Paragraph", b, e, "Document") >>
                       \o InlineNodes(k, b, "Paragraph"),
             mode |-> "para", idx |-> Len(st.out) + 1]
  ELSE IF k = "blank" THEN closed
  ELSE IF k = "h1" THEN
       [closed EXCEPT !.out = st.out \o << Nd("ATXHeading1", b, e, "Document"),
                                           Nd("HeaderMark", b, b + 1, "ATXHeading1") >>]
  ELSE IF k = "h3" THEN
       [closed EXCEPT !.out = st.out \o << Nd("ATXHeading3", b, e, "Document"),
                                           Nd("HeaderMark", b, b + 3, "ATXHeading3") >>]
  ELSE IF k = "hr" THEN
       IF st.mode = "para"
       THEN [closed EXCEPT !.out = Append(ToSetext(st.out, st.idx, e),
                                          Nd("HeaderMark", b, e, "SetextHeading2"))]
       ELSE [closed EXCEPT !.out = Append(st.out, Nd("HorizontalRule", b, e, "Document"))]
  ELSE IF k \in ContainerKinds THEN
       [out |-> st.out \o ContainerNodes(k, b, e), mode |-> "cont", idx |-> 0]
  ELSE \* an opening fence, with or without an info string
       [out |-> st.out \o << Nd("FencedCode", b, e, "Document"),
                             Nd("CodeMark", b, b + 3, "FencedCode") >>
                       \o (IF k \in FenceInfoKinds
                           THEN << Nd("CodeInfo", b + 3, e, "FencedCode") >>
                           ELSE << >>),
        mode |-> "fence", idx |-> Len(st.out) + 1]

\* The parse of a document, as the node list iterate() visits.
parseMarkdown(d) ==
  LET RECURSIVE P(_)
      P(i) == IF i = 0
              THEN [out |-> << Nd("Document", 0, DocLength(d), "") >>,
                    mode |-> "none", idx |-> 0]
              ELSE ParseStep(d, P(i - 1), i)
  IN P(NumLines(d)).out

\* An EditorState: the document, its syntax tree (the language field) and
\* the selection.
EditorState(d, t, sl) == [doc |-> d, tree |-> t, selection |-> sl]

\* syntaxTree(state)
syntaxTree(state) == state.tree


(***************************************************************************)
(* String helpers, computed as the JavaScript string methods compute them. *)
(***************************************************************************)

WhiteSpace == {" ", NL, "\t"}

Digits == {"0", "1", "2", "3", "4", "5", "6", "7", "8", "9"}

\* String.prototype.trim
trim(s) ==
  LET RECURSIVE L(_)
      L(t) == IF t # << >> /\ Head(t) \in WhiteSpace THEN L(Tail(t)) ELSE t
      RECURSIVE R(_)
      R(t) == IF t # << >> /\ t[Len(t)] \in WhiteSpace
              THEN R(SubSeq(t, 1, Len(t) - 1)) ELSE t
  IN R(L(s))

\* String.prototype.startsWith
startsWith(s, pre) == Len(s) >= Len(pre) /\ SubSeq(s, 1, Len(pre)) = pre

\* String.prototype.includes, for one character
includes(s, c) == \E i \in 1..Len(s) : s[i] = c

\* lineText.replace(/[`~]/g, '')
stripFenceChars(s) == SelectSeq(s, LAMBDA c : c \notin {BQ, "~"})

UpperChar(c) ==
  CASE c = "j" -> "J" [] c = "s" -> "S" [] c = "m" -> "M" [] c = "e" -> "E"
    [] c = "r" -> "R" [] c = "a" -> "A" [] c = "i" -> "I" [] c = "d" -> "D"
    [] c = "b" -> "B" [] c = "c" -> "C" [] c = "q" -> "Q" [] c = "u" -> "U"
    [] OTHER -> c

\* String.prototype.toUpperCase
toUpperCase(s) == [i \in 1..Len(s) |-> UpperChar(s[i])]

\* /^\d+[.)]/.test(text)
isNumberMark(text) ==
  \E n \in 1..Len(text) :
     /\ n < Len(text)
     /\ \A i \in 1..n : text[i] \in Digits
     /\ text[n + 1] \in {".", ")"}

\* ['-', '*', '+'].includes(text.trim())
isBulletMark(text) == trim(text) \in {<<"-">>, <<"*">>, <<"+">>}

(***************************************************************************)
(* Selection: one range.  No extension sets allowMultipleSelections, so    *)
(* every selection the state holds has a single range, the main one.       *)
(***************************************************************************)

Min2(a, b) == IF a <= b THEN a ELSE b
Max2(a, b) == IF a <= b THEN b ELSE a

\* state.selection.ranges, each with anchor, head, from, to
Ranges(s) ==
  << [anchor |-> s.anchor, head |-> s.head,
      from |-> Min2(s.anchor, s.head), to |-> Max2(s.anchor, s.head)] >>

\* state.selection.main
MainRange(s) == Ranges(s)[1]

(***************************************************************************)
(* Decorations                                                             *)
(***************************************************************************)

Deco(f, t, k, a) == [from |-> f, to |-> t, kind |-> k, arg |-> a]

\* iterate({enter}): what the callback pushed, node after node; pushed[k]
\* is what it pushed for the k-th node.
collect(pushed) ==
  LET RECURSIVE R(_)
      R(i) == IF i = 0 THEN << >> ELSE R(i - 1) \o pushed[i]
  IN R(Len(pushed))

\* The decorations left in the order the callback pushed them.
sortDecosUnsorted(decos) == decos

\* decos.sort((a, b) => a.from - b.from || a.to - b.to), a stable sort
sortDecos(decos) ==
  LET Before(a, b) == a.from < b.from \/ (a.from = b.from /\ a.to <= b.to)
      Insert(x, srt) ==
        LET n == Cardinality({j \in 1..Len(srt) : Before(srt[j], x)})
        IN SubSeq(srt, 1, n) \o <<x>> \o SubSeq(srt, n + 1, Len(srt))
      RECURSIVE S(_)
      S(i) == IF i = 0 THEN << >> ELSE Insert(decos[i], S(i - 1))
  IN S(Len(decos))


(***************************************************************************)
(* syntaxHiding.ts : hideSyntaxField                                       *)
(***************************************************************************)

hideDecoration(f, t) == Deco(f, t, "replace", <<"cm-syntax-marker">>)

headingDecorations(level) ==
  CASE level = 1 -> <<"cm-line-h1">> [] level = 2 -> <<"cm-line-h2">>
    [] level = 3 -> <<"cm-line-h3">> [] level = 4 -> <<"cm-line-h4">>
    [] level = 5 -> <<"cm-line-h5">> [] level = 6 -> <<"cm-line-h6">>

\* node.name.includes('ATXHeading') || node.name.includes('SetextHeading')
isHeadingName(name) ==
  name \in {"ATXHeading1", "ATXHeading2", "ATXHeading3", "ATXHeading4",
            "ATXHeading5", "ATXHeading6", "SetextHeading1", "SetextHeading2"}

headingLevelOne(name) == 1

\* parseInt(node.name.slice(-1))
headingLevel(name) ==
  CASE name \in {"ATXHeading1", "SetextHeading1"} -> 1
    [] name \in {"ATXHeading2", "SetextHeading2"} -> 2
    [] name = "ATXHeading3" -> 3 [] name = "ATXHeading4" -> 4
    [] name = "ATXHeading5" -> 5 [] name = "ATXHeading6" -> 6

\* The line classes without the isSingleLine case.
codeBlockClassNoSingle(i, startLine, endLine) ==
  IF i = startLine THEN "cm-codeblock-top"
  ELSE IF i = endLine THEN "cm-codeblock-bottom"
  ELSE "cm-codeblock-middle"

\* The class of line i of a fenced block that spans startLine..endLine.
codeBlockClass(i, startLine, endLine) ==
  IF startLine = endLine THEN "cm-codeblock-single"
  ELSE IF i = startLine THEN "cm-codeblock-top"
  ELSE IF i = endLine THEN "cm-codeblock-bottom"
  ELSE "cm-codeblock-middle"

\* One Decoration.line per line of the range, at the start of the line.
lineDecos(d, startLine, endLine, value) ==
  [j \in 1..(endLine - startLine + 1) |->
     Deco(LineFrom(d, startLine + j - 1), LineFrom(d, startLine + j - 1),
          "line", value[startLine + j - 1])]

\* The line of the main selection's start: the one line whose markers
\* stay visible.
cursorLine(state) == lineAt(state.doc, MainRange(state.selection).from)

\* What the enter callback pushes for one node.
hideSyntaxEnter(d, cursor, node) ==
  LET nodeLine == lineAt(d, node.from)
      text     == sliceDoc(d, node.from, node.to)
      lineText == LineTextOf(d, nodeLine)
      lang     == trim(stripFenceChars(lineText))
      startLine == lineAt(d, node.from)
      endLine   == lineAt(d, node.to)
      block ==
        IF node.name = "FencedCode"
        THEN lineDecos(d, startLine, endLine,
               [i \in startLine..endLine |->
                  << "cm-codeblock-line", codeBlockClass(i, startLine, endLine) >>])
        ELSE << >>
      rest ==
        IF node.name = "CodeMark" THEN
          IF nodeLine # cursor
             /\ (startsWith(trim(lineText), <<BQ, BQ, BQ>>)
                 \/ startsWith(trim(lineText), <<"~", "~", "~">>))
          THEN IF lang # << >>
               THEN << Deco(node.from, node.to, "LanguageBadge", toUpperCase(lang)) >>
               ELSE << hideDecoration(node.from, node.to) >>
          ELSE << >>
        ELSE IF node.name = "TaskMarker" THEN
          IF nodeLine # cursor
          THEN << Deco(node.from, node.to, "CheckboxWidget",
                       IF includes(text, "x") \/ includes(text, "X")
                       THEN <<"checked">> ELSE <<"unchecked">>) >>
          ELSE << >>
        ELSE IF node.name = "HorizontalRule" THEN
          IF nodeLine # cursor
          THEN << Deco(node.from, node.to, "HorizontalRuleWidget", << >>) >>
          ELSE << >>
        ELSE IF node.name = "ListMark" THEN
          IF nodeLine # cursor
          THEN IF isNumberMark(text) THEN << >>
               ELSE IF isBulletMark(text)
               THEN << Deco(node.from, node.to, "BulletWidget", << >>) >>
               ELSE << hideDecoration(node.from, node.to) >>
          ELSE << >>
        ELSE IF node.name = "HeaderMark" THEN
          IF nodeLine # cursor
          THEN << hideDecoration(node.from, node.to) >> ELSE << >>
        ELSE IF isHeadingName(node.name) THEN
          lineDecos(d, startLine, endLine,
                    [i \in startLine..endLine |->
                       headingDecorations(headingLevel(node.name))])
        ELSE IF node.name \in {"QuoteMark", "EmphasisMark",
                               "StrongEmphasisMark", "LinkMark"} THEN
          IF nodeLine # cursor
          THEN << hideDecoration(node.from, node.to) >> ELSE << >>
        ELSE << >>
  IN block \o rest

\* The rebuild: walk the tree, collect, sort, add to the builder.
hideSyntaxBuild(state) ==
  LET tree == syntaxTree(state)
      cursor == cursorLine(state)
  IN sortDecos(collect([k \in 1..Len(tree) |->
                          hideSyntaxEnter(state.doc, cursor, tree[k])]))

\* hideSyntaxField.create
hideSyntaxCreate == << >>

\* hideSyntaxField.update(value, tr); without a document change tr.changes
\* is empty and value.map(tr.changes) is value.
hideSyntaxUpdate(value, state, docChanged, selectionSet) ==
  IF ~docChanged /\ ~selectionSet THEN value ELSE hideSyntaxBuild(state)

(***************************************************************************)
(* syntax_hiding.ts : syntaxHidingField / buildHidingDecorations           *)
(***************************************************************************)

hiddenMark(f, t) == Deco(f, t, "mark", <<"cm-syntax-hidden">>)

dividerDecoration(f, t) == Deco(f, t, "DividerWidget", << >>)

HIDEABLE_NODES ==
  {"HeaderMark", "EmphasisMark", "StrikethroughMark", "QuoteMark",
   "LinkMark", "ImageMark"}

isLineActive(state, lineStart, lineEnd) ==
  LET rs == Ranges(state.selection)
  IN \E i \in 1..Len(rs) :
        \/ rs[i].head >= lineStart /\ rs[i].head <= lineEnd
        \/ rs[i].from <= lineEnd /\ rs[i].to >= lineStart

buildHidingEnter(state, node) ==
  LET d == state.doc
      isHideable == \/ node.name \in HIDEABLE_NODES
                    \/ node.name \in {"HorizontalRule", "CodeMark", "URL"}
      line == lineAt(d, node.from)
  IN IF ~isHideable THEN << >>
     \* try { line = state.doc.lineAt(node.from) } catch (e) { return }
     ELSE IF lineAtThrows(d, node.from) THEN << >>
     ELSE IF isLineActive(state, LineFrom(d, line), LineTo(d, line)) THEN << >>
     ELSE IF node.name = "HorizontalRule"
          THEN << dividerDecoration(node.from, node.to) >>
     ELSE IF node.name = "CodeMark"
          THEN IF node.parent # "InlineCode" THEN << >>
               ELSE << hiddenMark(node.from, node.to) >>
     ELSE IF node.name = "URL"
          THEN IF node.parent \in {"Link", "Image"}
               THEN << hiddenMark(node.from, node.to) >> ELSE << >>
     ELSE << hiddenMark(node.from, node.to) >>

buildHidingDecorations(state) ==
  LET tree == syntaxTree(state)
  IN collect([k \in 1..Len(tree) |-> buildHidingEnter(state, tree[k])])

\* syntaxHidingField.update
syntaxHidingUpdate(decorations, state, docChanged, selectionSet) ==
  IF docChanged \/ selectionSet THEN buildHidingDecorations(state)
  ELSE decorations

(***************************************************************************)
(* styling.ts : hideMarksExtension                                         *)
(***************************************************************************)

hiddenMarkClass(f, t) == Deco(f, t, "mark", <<"cm-formatting-hidden">>)

checkboxMarkClass(f, t) == Deco(f, t, "mark", <<"cm-formatting-task">>)

\* The active lines: the main selection's line, or its range of lines.
activeLines(state) ==
  LET m == MainRange(state.selection)
      d == state.doc
  IN IF m.from = m.to THEN {lineAt(d, m.head)}
     ELSE lineAt(d, m.from)..lineAt(d, m.to)

computeEnter(state, active, node) ==
  IF node.name \in {"HeaderMark", "QuoteMark", "ListMark", "EmphasisMark",
                    "TaskMarker", "CodeMark", "LinkMark"}
  THEN IF lineAt(state.doc, node.from) \notin active
       THEN IF node.name = "TaskMarker"
            THEN << checkboxMarkClass(node.from, node.to) >>
            ELSE << hiddenMarkClass(node.from, node.to) >>
       ELSE IF node.name = "TaskMarker"
            THEN << checkboxMarkClass(node.from, node.to) >>
            ELSE << >>
  ELSE << >>

\* The whole document is visible: one visible range.
computeDecorations(state) ==
  LET tree == syntaxTree(state)
      active == activeLines(state)
  IN collect([k \in 1..Len(tree) |-> computeEnter(state, active, tree[k])])

\* hideMarksExtension.update
hideMarksUpdate(decorations, state, docChanged, selectionSet) ==
  IF docChanged \/ selectionSet THEN computeDecorations(state)
  ELSE decorations


(***************************************************************************)
(* images.ts and mermaid.ts : the widget fields                            *)
(***************************************************************************)

MinOf(S) == CHOOSE x \in S : \A y \in S : x <= y

\* The character at a 0-based offset.
CharAt(T, o) == IF o >= 0 /\ o < Len(T) THEN T[o + 1] ELSE "EOF"

NoNewline(T, a, b) == \A x \in a..(b - 1) : CharAt(T, x) # NL

\* /!\[(.*?)\]\((.*?)\)/ matched at offset o: the first closing "](" that
\* is followed on the same line by ")", then the first such ")".
imageMatchAt(T, o) ==
  LET n == Len(T)
      Ks(j) == {k \in (j + 2)..(n - 1) :
                  CharAt(T, k) = ")" /\ NoNewline(T, j + 2, k)}
      Js == {j \in (o + 2)..(n - 1) :
               /\ CharAt(T, j) = "]" /\ CharAt(T, j + 1) = "("
               /\ NoNewline(T, o + 2, j) /\ Ks(j) # {}}
  IN IF CharAt(T, o) = "!" /\ CharAt(T, o + 1) = "[" /\ Js # {}
     THEN LET j == MinOf(Js)
              k == MinOf(Ks(j))
          IN [found |-> TRUE, from |-> o, to |-> k + 1,
              widget |-> [url |-> SubSeq(T, j + 3, k),
                          alt |-> SubSeq(T, o + 3, j)]]
     ELSE [found |-> FALSE, from |-> o, to |-> o,
           widget |-> [url |-> << >>, alt |-> << >>]]

MermaidOpen == <<BQ, BQ, BQ, "m", "e", "r", "m", "a", "i", "d", NL>>

\* /```mermaid\n([\s\S]*?)```/ matched at offset o
mermaidMatchAt(T, o) ==
  LET n == Len(T)
      h == Len(MermaidOpen)
      Js == {j \in (o + h)..(n - 3) : SubSeq(T, j + 1, j + 3) = <<BQ, BQ, BQ>>}
  IN IF o + h <= n /\ SubSeq(T, o + 1, o + h) = MermaidOpen /\ Js # {}
     THEN LET j == MinOf(Js)
          IN [found |-> TRUE, from |-> o, to |-> j + 3,
              widget |-> [code |-> SubSeq(T, o + h + 1, j)]]
     ELSE [found |-> FALSE, from |-> o, to |-> o, widget |-> [code |-> << >>]]

\* while ((match = regex.exec(text))) ... : the matches of a global regex,
\* left to right, each search starting where the previous match ended.
\* matchAt[o] is the match of the regex at offset o.
execAll(T, matchAt) ==
  LET RECURSIVE Scan(_)
      Scan(o) == IF o >= Len(T) THEN << >>
                 ELSE LET m == matchAt[o]
                      IN IF m.found THEN <<m>> \o Scan(m.to) ELSE Scan(o + 1)
  IN Scan(0)

\* images.ts buildDecorations: a block widget after each match
buildImageDecorations(T) ==
  LET ms == execAll(T, [o \in 0..(Len(T) - 1) |-> imageMatchAt(T, o)])
  IN [i \in 1..Len(ms) |-> Deco(ms[i].to, ms[i].to, "ImageWidget", ms[i].widget)]

\* mermaid.ts buildDecorations: a block widget after each match
buildMermaidDecorations(T) ==
  LET ms == execAll(T, [o \in 0..(Len(T) - 1) |-> mermaidMatchAt(T, o)])
  IN [i \in 1..Len(ms) |-> Deco(ms[i].to, ms[i].to, "MermaidWidget", ms[i].widget)]

\* An update that keeps the decorations only across document changes.
imageFieldUpdateDropped(decorations, T, docChanged) ==
  IF docChanged THEN buildImageDecorations(T) ELSE << >>

\* imageField.update; without a document change tr.changes is empty and
\* decorations.map(tr.changes) is decorations.
imageFieldUpdate(decorations, T, docChanged) ==
  IF docChanged THEN buildImageDecorations(T) ELSE decorations

\* An update that never rebuilds: the decorations it was given are kept.
mermaidFieldUpdateKept(decorations, T, docChanged) == decorations

\* mermaidField.update
mermaidFieldUpdate(decorations, T, docChanged) ==
  IF docChanged THEN buildMermaidDecorations(T) ELSE decorations

\* ImageWidget.eq
ImageWidgetEq(a, b) == a.url = b.url /\ a.alt = b.alt

\* The default WidgetType.eq of a widget class that defines none.
MermaidWidgetEqNever(a, b) == FALSE

\* MermaidWidget.eq
MermaidWidgetEq(a, b) == a.code = b.code

\* WidgetType.compare: the widgets are of one class and eq holds.
widgetCompare(a, b) ==
  /\ DOMAIN a = DOMAIN b
  /\ IF "code" \in DOMAIN a THEN MermaidWidgetEq(a, b) ELSE ImageWidgetEq(a, b)

(***************************************************************************)
(* Transactions                                                            *)
(***************************************************************************)

\* A transaction's change set: one replacement of [from, to) by ins
\* characters; the empty change set has from = to and ins = 0.
NoChange == [from |-> 0, to |-> 0, ins |-> 0]

\* ChangeSet.mapPos(pos, assoc) for one replacement.
mapPos(ch, pos, assoc) ==
  IF ch.from = ch.to /\ ch.ins = 0 THEN pos
  ELSE IF pos < ch.from THEN pos
  ELSE IF ch.to > pos \/ (ch.to = pos /\ assoc < 0 /\ ch.to = ch.from)
       THEN IF pos = ch.from \/ assoc < 0 THEN ch.from ELSE ch.from + ch.ins
  ELSE pos - (ch.to - ch.from) + ch.ins

\* EditorSelection.map(changes): a cursor maps with assoc -1, a range maps
\* its start forward and its end backward.
mapSelection(s, ch) ==
  LET m  == MainRange(s)
      f  == IF m.from = m.to THEN mapPos(ch, m.from, -1) ELSE mapPos(ch, m.from, 1)
      t0 == IF m.from = m.to THEN f ELSE mapPos(ch, m.to, -1)
      t  == Max2(f, t0)
  IN [anchor |-> IF s.anchor <= s.head THEN f ELSE t,
      head   |-> IF s.anchor <= s.head THEN t ELSE f]

\* The view's reconciliation of mounted widgets with a new decoration set:
\* a widget whose mapped position carries an eq widget keeps its DOM
\* instance, any other new widget gets toDOM (a new instance), and the
\* instances not kept are destroyed.  An instance records whether it has
\* been carried to another offset since its creation (moved).
syncWidgets(dom, decos, ch) ==
  LET Kept(i) == {o \in 1..Len(dom) :
                    /\ mapPos(ch, dom[o].pos, 1) = decos[i].from
                    /\ widgetCompare(dom[o].widget, decos[i].arg)}
      Used == {dom[o].id : o \in 1..Len(dom)}
      Made(i) == Cardinality({j \in 1..i : Kept(j) = {}})
      \* the r-th smallest id that no mounted instance uses
      RECURSIVE Free(_, _)
      Free(r, from) == IF from \in Used THEN Free(r, from + 1)
                       ELSE IF r = 1 THEN from ELSE Free(r - 1, from + 1)
  IN [i \in 1..Len(decos) |->
        IF Kept(i) # {}
        THEN LET old == dom[MinOf(Kept(i))]
             IN [pos |-> decos[i].from, widget |-> decos[i].arg, id |-> old.id,
                 moved |-> old.moved \/ old.pos # decos[i].from]
        ELSE [pos |-> decos[i].from, widget |-> decos[i].arg,
              id |-> Free(Made(i), 1), moved |-> FALSE]]


(***************************************************************************)
(* The widgets' DOM: the listeners toDOM's closures put on the global      *)
(* document and the styles they set.  A mounted instance is named by its   *)
(* widget class and its id.                                                *)
(***************************************************************************)

\* The ids of the mounted instances of one field.
Ids(dom) == {dom[i].id : i \in 1..Len(dom)}

\* The instances of one widget class.
Owners(cls, ids) == {<<cls, id>> : id \in ids}

\* The two listeners of one instance: its onMouseMove and onMouseUp closures.
DragListeners(o) ==
  {[type |-> "mousemove", owner |-> o], [type |-> "mouseup", owner |-> o]}

\* The resize handle's mousedown listener: document.addEventListener twice.
onMouseDown(registered, o) == registered \cup DragListeners(o)

\* onMouseUp: document.removeEventListener twice.
onMouseUp(registered, o) == registered \ DragListeners(o)

\* container._cleanup
cleanup(registered, o) == registered \ DragListeners(o)

\* A destroy hook that leaves the document's listeners alone.
destroyNoCleanup(registered, o) == registered

\* ImageWidget.destroy, MermaidWidget.destroy: the container's _cleanup.
destroy(registered, o) == cleanup(registered, o)

\* destroy for every instance of gone, in any order.
destroyAll(registered, gone) ==
  LET RECURSIVE D(_, _)
      D(r, S) == IF S = {} THEN r
                 ELSE LET o == CHOOSE x \in S : TRUE
                      IN D(destroy(r, o), S \ {o})
  IN D(registered, gone)

UpperCase == <<"A", "B", "C", "D", "E", "F", "G", "H", "I", "J", "K", "L", "M",
               "N", "O", "P", "Q", "R", "S", "T", "U", "V", "W", "X", "Y", "Z">>

LowerCase == <<"a", "b", "c", "d", "e", "f", "g", "h", "i", "j", "k", "l", "m",
               "n", "o", "p", "q", "r", "s", "t", "u", "v", "w", "x", "y", "z">>

\* String.prototype.toLowerCase
toLowerCase(str) ==
  [i \in 1..Len(str) |->
     IF \E j \in 1..26 : UpperCase[j] = str[i]
     THEN LowerCase[CHOOSE j \in 1..26 : UpperCase[j] = str[i]]
     ELSE str[i]]

\* String.prototype.includes
includesString(str, q) ==
  \E i \in 0..(Len(str) - Len(q)) : SubSeq(str, i + 1, i + Len(q)) = q

(***************************************************************************)
(* command_palette.ts : CommandPalette                                     *)
(***************************************************************************)

Item(label, section, shortcut, apply) ==
  [label |-> label, section |-> section, shortcut |-> shortcut, apply |-> apply]

\* commands: label, section, shortcut (empty when the item has none; "cmd"
\* and "shift" stand for the two modifier signs) and what apply calls.  The
\* diagrams are the last five.
commands ==
  <<
     Item(<<"B", "o", "l", "d">>,
          <<"F", "o", "r", "m", "a", "t", "t", "i", "n", "g">>, <<"cmd", "B">>, "toggleBold"),
     Item(<<"I", "t", "a", "l", "i", "c">>,
          <<"F", "o", "r", "m", "a", "t", "t", "i", "n", "g">>, <<"cmd", "I">>, "toggleItalic"),
     Item(<<"S", "t", "r", "i", "k", "e", "t", "h", "r", "o", "u", "g", "h">>,
          <<"F", "o", "r", "m", "a", "t", "t", "i", "n", "g">>, << >>, "toggleStrikethrough"),
     Item(<<"C", "o", "d", "e">>,
          <<"F", "o", "r", "m", "a", "t", "t", "i", "n", "g">>, << >>, "toggleCode"),
     Item(<<"H", "e", "a", "d", "i", "n", "g", " ", "1">>,
          <<"H", "e", "a", "d", "i", "n", "g", "s">>, << >>, "insertHeading1"),
     Item(<<"H", "e", "a", "d", "i", "n", "g", " ", "2">>,
          <<"H", "e", "a", "d", "i", "n", "g", "s">>, << >>, "insertHeading2"),
     Item(<<"H", "e", "a", "d", "i", "n", "g", " ", "3">>,
          <<"H", "e", "a", "d", "i", "n", "g", "s">>, << >>, "insertHeading3"),
     Item(<<"B", "u", "l", "l", "e", "t", " ", "L", "i", "s", "t">>,
          <<"L", "i", "s", "t", "s">>, << >>, "insertList"),
     Item(<<"N", "u", "m", "b", "e", "r", "e", "d", " ", "L", "i", "s", "t">>,
          <<"L", "i", "s", "t", "s">>, << >>, "insertOrderedList"),
     Item(<<"T", "a", "s", "k", " ", "L", "i", "s", "t">>,
          <<"L", "i", "s", "t", "s">>, << >>, "taskList"),
     Item(<<"Q", "u", "o", "t", "e">>,
          <<"B", "l", "o", "c", "k", "s">>, << >>, "insertBlockquote"),
     Item(<<"C", "o", "d", "e", " ", "B", "l", "o", "c", "k">>,
          <<"B", "l", "o", "c", "k", "s">>, << >>, "insertCodeBlock"),
     Item(<<"D", "i", "v", "i", "d", "e", "r">>,
          <<"B", "l", "o", "c", "k", "s">>, << >>, "insertHorizontalRule"),
     Item(<<"L", "i", "n", "k">>,
          <<"M", "e", "d", "i", "a">>, <<"cmd", "K">>, "insertLink"),
     Item(<<"I", "m", "a", "g", "e">>,
          <<"M", "e", "d", "i", "a">>, <<"cmd", "shift", "K">>, "insertImage"),
     Item(<<"M", "e", "r", "m", "a", "i", "d", " ", "D", "i", "a", "g", "r", "a", "m">>,
          <<"D", "i", "a", "g", "r", "a", "m", "s">>, << >>, "mermaid"),
     Item(<<"F", "l", "o", "w", "c", "h", "a", "r", "t">>,
          <<"D", "i", "a", "g", "r", "a", "m", "s">>, << >>, "flowchart"),
     Item(<<"S", "e", "q", "u", "e", "n", "c", "e", " ", "D", "i", "a", "g", "r", "a", "m">>,
          <<"D", "i", "a", "g", "r", "a", "m", "s">>, << >>, "sequence"),
     Item(<<"C", "l", "a", "s", "s", " ", "D", "i", "a", "g", "r", "a", "m">>,
          <<"D", "i", "a", "g", "r", "a", "m", "s">>, << >>, "class"),
     Item(<<"M", "i", "n", "d", "m", "a", "p">>,
          <<"D", "i", "a", "g", "r", "a", "m", "s">>, << >>, "mindmap") >>

\* The commands of command_palette.ts: those before the diagrams.
NumOlderCommands == 15

\* this.renderItems = commands, as indices into commands; cursor tells the
\* version of part_003.
AllItems(cursor) ==
  [i \in 1..(IF cursor THEN Len(commands) ELSE NumOlderCommands) |-> i]

\* new CommandPalette(view)
CommandPalette(cursor) ==
  [active |-> FALSE, selectedIndex |-> 0, renderItems |-> AllItems(cursor),
   triggerPos |-> 0, display |-> "none"]

\* show(left, top, triggerPos); part_003 also resets the filter
show(p, triggerPos, cursor) ==
  [p EXCEPT !.active = TRUE, !.triggerPos = triggerPos, !.display = "flex",
            !.selectedIndex = 0,
            !.renderItems = IF cursor THEN AllItems(cursor) ELSE @]

\* hide()
hide(p) == [p EXCEPT !.active = FALSE, !.display = "none"]

\* The filter of handleUpdate (part_003).
filterCommands(query) ==
  IF query = << >> THEN AllItems(TRUE)
  ELSE SelectSeq(AllItems(TRUE),
                 LAMBDA i :
                   \/ includesString(toLowerCase(commands[i].label), query)
                   \/ includesString(toLowerCase(commands[i].section), query)
                   \/ /\ commands[i].shortcut # << >>
                      /\ includesString(toLowerCase(commands[i].shortcut), query))

handleUpdateNoHide(p, d, s, ch, docChanged, selectionSet, cursor) ==
  IF p.active /\ (docChanged \/ (cursor /\ selectionSet))
  THEN LET newPos == mapPos(ch, p.triggerPos, -1)
           moved == [p EXCEPT !.triggerPos = newPos]
           from == MainRange(s).from
       IN IF cursor
          THEN [moved EXCEPT
                  !.renderItems =
                     filterCommands(toLowerCase(sliceDoc(d, newPos + 1, from))),
                  !.selectedIndex = 0]
          ELSE moved
  ELSE p

\* handleUpdate(update) in the new state with document d and selection s.
\* With cursor, the version of part_003, which also runs when the selection
\* is set, hides when the cursor is before the trigger and filters the items
\* by the text between the trigger and the cursor.
handleUpdate(p, d, s, ch, docChanged, selectionSet, cursor) ==
  IF ~p.active THEN p
  ELSE IF docChanged \/ (cursor /\ selectionSet)
  THEN LET newPos == mapPos(ch, p.triggerPos, -1)
           moved == [p EXCEPT !.triggerPos = newPos]
           from == MainRange(s).from
       IN IF cursor /\ from < newPos THEN hide(moved)
          ELSE IF CharAt(DocText(d), newPos) # "/" THEN hide(moved)
          ELSE IF cursor
          THEN [moved EXCEPT
                  !.renderItems =
                     filterCommands(toLowerCase(sliceDoc(d, newPos + 1, from))),
                  !.selectedIndex = 0]
          ELSE moved
  ELSE p

\* handleKey for "/" while the palette is not active: whether show() is
\* scheduled for the cursor at from.
isTrigger(d, from) ==
  LET textBefore == sliceDoc(d, LineFrom(d, lineAt(d, from)), from)
  IN textBefore = << >> \/ textBefore[Len(textBefore)] \in WhiteSpace

(***************************************************************************)
(* editor.ts : debounceContentChange                                       *)
(***************************************************************************)

\* contentChangeTimeout = null
NoTimer == 0

\* clearTimeout(handle)
clearTimeout(ts, handle) == {t \in ts : t.id # handle}

\* setTimeout(() => { notifyContentChanged(content); ... }, 100): a handle
\* differs from the one returned before it.
setTimeout(ts, last, content) ==
  LET id == (last % TimerIds) + 1
  IN [timers |-> ts \cup {[id |-> id, content |-> content]},
      handle |-> id, last |-> id]

debounceContentChangeNoClear(ts, handle, last, content) ==
  setTimeout(ts, last, content)

\* debounceContentChange(content)
debounceContentChange(ts, handle, last, content) ==
  setTimeout(IF handle # NoTimer THEN clearTimeout(ts, handle) ELSE ts,
             last, content)

(***************************************************************************)
(* The diagrams' asynchronous render: toDOM calls render(), which shows a  *)
(* placeholder, awaits mermaid.render and then writes the svg or the error *)
(* into the content element it closed over.                                *)
(***************************************************************************)

\* What a content element shows, and the theme an svg was drawn with.
Html(h, th) == [html |-> h, theme |-> th]

\* render() up to its await: the placeholder is shown.
renderLoading == Html("loading", "none")

\* The promise render() awaits: the instance whose content element the
\* continuation writes, the widget's code, the theme mermaid was
\* initialised with at the call, and whether the container is still mounted.
renderPending(o, code, th) ==
  [owner |-> o, code |-> code, theme |-> th, attached |-> TRUE]

\* render() after the await: content.innerHTML = svg
renderResolved(r) == Html("svg", r.theme)

\* A catch block that only clears the content element.
renderRejectedEmpty(r) == Html("", "none")

\* render()'s catch block: the content is cleared and an error div appended.
renderRejected(r) == Html("error", "none")

\* mermaid.initialize of setMermaidTheme
setMermaidTheme(th) == th

(***************************************************************************)
(* JavaScriptUtilities.swift                                               *)
(***************************************************************************)

BACKSLASH == "\\"

QUOTE == "\""

CR == "\r"

TAB == "\t"

\* U+2028 and U+2029 (one atom each)
LS == "U+2028"

PS == "U+2029"

\* string.replacingOccurrences(of: c, with: r) for a one-character c: the
\* receiver t, scanned from its first character.
replacingOccurrences(s, c, r) ==
  LET RECURSIVE R(_, _)
      R(t, i) == IF i > Len(t) THEN << >>
                 ELSE (IF t[i] = c THEN r ELSE << t[i] >>) \o R(t, i + 1)
  IN CHOOSE x \in {R(t, 1) : t \in {s}} : TRUE

escapeJavaScriptStringQuoteFirst(string) ==
  LET a == replacingOccurrences(string, QUOTE, << BACKSLASH, QUOTE >>)
      b == replacingOccurrences(a, BACKSLASH, << BACKSLASH, BACKSLASH >>)
      c == replacingOccurrences(b, NL, << BACKSLASH, "n" >>)
      d == replacingOccurrences(c, CR, << BACKSLASH, "r" >>)
      e == replacingOccurrences(d, TAB, << BACKSLASH, "t" >>)
      f == replacingOccurrences(e, LS, << BACKSLASH, "u", "2", "0", "2", "8" >>)
  IN replacingOccurrences(f, PS, << BACKSLASH, "u", "2", "0", "2", "9" >>)

\* escapeJavaScriptString(string): the replacements, chained in this order
escapeJavaScriptString(string) ==
  LET a == replacingOccurrences(string, BACKSLASH, << BACKSLASH, BACKSLASH >>)
      b == replacingOccurrences(a, QUOTE, << BACKSLASH, QUOTE >>)
      c == replacingOccurrences(b, NL, << BACKSLASH, "n" >>)
      d == replacingOccurrences(c, CR, << BACKSLASH, "r" >>)
      e == replacingOccurrences(d, TAB, << BACKSLASH, "t" >>)
      f == replacingOccurrences(e, LS, << BACKSLASH, "u", "2", "0", "2", "8" >>)
  IN replacingOccurrences(f, PS, << BACKSLASH, "u", "2", "0", "2", "9" >>)

\* JavaScriptArgument.string(value).toJavaScript()
toJavaScript(value) == << QUOTE >> \o escapeJavaScriptString(value) \o << QUOTE >>

\* The character a \uXXXX escape of a script denotes.
UnicodeEscape(hex) ==
  IF hex = << "2", "0", "2", "8" >> THEN LS
  ELSE IF hex = << "2", "0", "2", "9" >> THEN PS
  ELSE "U+other"

HexDigits == {"0", "2", "8", "9"}

\* The JavaScript engine reading the body of a double-quoted string literal
\* (ECMAScript StringLiteral): ok is FALSE when the body holds an unescaped
\* double quote, a raw line feed or carriage return, or a broken escape.
StringValue(body) ==
  LET RECURSIVE V(_)
      V(i) ==
        IF i > Len(body) THEN [ok |-> TRUE, value |-> << >>]
        ELSE IF body[i] \in {QUOTE, NL, CR} THEN [ok |-> FALSE, value |-> << >>]
        ELSE IF body[i] # BACKSLASH
        THEN LET r == V(i + 1)
             IN [ok |-> r.ok, value |-> << body[i] >> \o r.value]
        ELSE IF i + 1 > Len(body) THEN [ok |-> FALSE, value |-> << >>]
        ELSE IF body[i + 1] = "u"
        THEN IF i + 5 <= Len(body)
                  /\ \A j \in (i + 2)..(i + 5) : body[j] \in HexDigits
             THEN LET r == V(i + 6)
                  IN [ok |-> r.ok,
                      value |-> << UnicodeEscape(SubSeq(body, i + 2, i + 5)) >>
                                  \o r.value]
             ELSE [ok |-> FALSE, value |-> << >>]
        ELSE LET r == V(i + 2)
                 x == body[i + 1]
                 v == IF x = "n" THEN << NL >>
                      ELSE IF x = "r" THEN << CR >>
                      ELSE IF x = "t" THEN << TAB >>
                      ELSE IF x \in {NL, CR, LS, PS} THEN << >>
                      ELSE << x >>
             IN [ok |-> r.ok, value |-> v \o r.value]
  IN V(1)

\* EditorBridgeError.invalidInput(parameter:reason:), and no error
invalidInput(parameter) == [error |-> "invalidInput", parameter |-> parameter]

NoError == [error |-> "none", parameter |-> "none"]

validateInputNoLimit(text, maxLength) == NoError

\* validateInput(text:maxLength:): what it throws; it returns text itself
validateInput(text, maxLength) ==
  IF Len(text) <= maxLength THEN NoError ELSE invalidInput("text")

validateSelectionUnordered(from, to) ==
  IF from < 0 THEN invalidInput("from")
  ELSE IF to < 0 THEN invalidInput("to")
  ELSE NoError

\* validateSelection(from:to:): what it throws
validateSelection(from, to) ==
  IF ~(from >= 0) THEN invalidInput("from")
  ELSE IF ~(to >= 0) THEN invalidInput("to")
  ELSE IF ~(from <= to) THEN invalidInput("from/to")
  ELSE NoError

(***************************************************************************)
(* EditorBridge (the version with validation and thrown errors)            *)
(***************************************************************************)

\* validateInput's default maxLength, scaled to the contents that are
\* followed (10_000_000 in the source).
maxLength == 3

\* Most evaluateJavaScript calls, pending timeouts and unhandled messages
\* at once.
MaxScripts == 2

\* Arguments of setSelection that are followed: -1 .. MaxOffset.
MaxOffset == 1

\* The messages of the page.
Ready == [type |-> "ready", content |-> << >>]

contentChanged(str) == [type |-> "contentChanged", content |-> str]

editorNotReady == [error |-> "editorNotReady", parameter |-> "none"]

javaScriptEvaluationFailed(command) ==
  [error |-> "javaScriptEvaluationFailed", parameter |-> command]

NoApi == [fn |-> "none", args |-> << >>, n |-> 0]

\* The bridge as its initialiser leaves it.
EditorBridge ==
  [isReady |-> FALSE, cachedContent |-> << >>, isUpdatingFromSwift |-> FALSE,
   inbox |-> << >>, push |-> FALSE,
   delegate |-> [n |-> 0, content |-> <<"none">>],
   api |-> NoApi, thrown |-> NoError]

NoCall == [fn |-> "none", arg |-> << >>, result |-> << >>]

\* Longest string that is escaped on its own.
MaxEscapeLength == 3

\* The characters of those strings: the seven that are escaped, and
\* letters that follow a backslash in an escape.
EscapeAlphabet == {BACKSLASH, QUOTE, NL, CR, TAB, LS, PS, "a", "n", "u"}

EscapeInputs == UNION {[1..n -> EscapeAlphabet] : n \in 0..MaxEscapeLength}

\* Longest document a wrap toggle is applied to on its own, and longest
\* document cycleTodo is applied to on its own.
MaxWrapLength == 5

MaxTodoLength == 3

\* Most successive applications of one command that are followed.
MaxApplications == 3

\* editorAPI.toggleBold, toggleItalic, toggleCode, toggleStrikethrough: the
\* marker each passes to wrapSelection.
WrapPrefix(cmd) ==
  CASE cmd = "toggleBold"          -> <<"*", "*">>
    [] cmd = "toggleItalic"        -> <<"*">>
    [] cmd = "toggleCode"          -> <<BQ>>
    [] cmd = "toggleStrikethrough" -> <<"~", "~">>

WrapCommands == {"toggleBold", "toggleItalic", "toggleCode", "toggleStrikethrough"}

Strings(alphabet, n) == UNION {[1..m -> alphabet] : m \in 0..n}

\* A command, the document and the selection it starts from.
CommandInput(cmd, T, a, h) == [cmd |-> cmd, text |-> T, anchor |-> a, head |-> h]

\* The wrap toggles start from documents of the marker's character and a
\* letter, with any selection.
WrapInputs ==
  UNION {{CommandInput(cmd, T, a, h) :
            T \in Strings({WrapPrefix(cmd)[1], "a"}, MaxWrapLength),
            a \in 0..MaxWrapLength, h \in 0..MaxWrapLength} :
         cmd \in WrapCommands}

\* cycleTodo starts from documents of one or two lines, with a cursor.
TodoAlphabet == {"-", " ", "[", "]", "x", "a", NL}

TodoInputs ==
  {CommandInput("cycleTodo", T, h, h) :
     T \in Strings(TodoAlphabet, MaxTodoLength), h \in 0..MaxTodoLength}

\* Longest document the slash completion and the "/" key binding are
\* applied to on their own.
MaxSlashLength == 3

\* Those documents: "/", a blank, a line break, a lower-case and an
\* upper-case letter of the labels, and a character that is neither a word
\* character nor a blank; with any selection.
SlashAlphabet == {"/", " ", NL, "h", "O", "-"}

SlashInputs ==
  {CommandInput("none", T, a, h) :
     T \in Strings(SlashAlphabet, MaxSlashLength),
     a \in 0..MaxSlashLength, h \in 0..MaxSlashLength}

(***************************************************************************)
(* EditorWebView and its Coordinator                                       *)
(***************************************************************************)

\* EditorWebView.Coordinator after makeNSView, with the text of the binding
\* (textBinding), the Tasks it has started that have not run yet, and who
\* wrote the bound text last ("host" or "editor").
Coordinator(text) ==
  [textBinding |-> text, initialContent |-> text, lastKnownContent |-> << >>,
   tasks |-> << >>, origin |-> "host"]

\* Coordinator.editorDidChangeContent(content)
editorDidChangeContent(c, str) ==
  [c EXCEPT !.lastKnownContent = str, !.textBinding = str, !.origin = "editor"]

\* Coordinator.editorDidBecomeReady(): the Task is started
editorDidBecomeReady(c) ==
  IF c.initialContent # << >>
  THEN [c EXCEPT !.tasks = Append(@, [kind |-> "ready", content |-> c.initialContent,
                                      origin |-> "host"])]
  ELSE c

\* The Task of editorDidBecomeReady after its await
readyTaskReturns(c) == [c EXCEPT !.lastKnownContent = c.initialContent]

\* What the host passes to setContent: one line or two lines of the menu.
ContentsOf(m) ==
  {Text(<<k>>).text : k \in m \cup {"blank"}}
    \cup {Text(<<k, l>>).text : k \in m, l \in m}

(***************************************************************************)
(* The editor state and its transactions                                   *)
(***************************************************************************)

VARIABLES
  doc,            \* state.doc
  tree,           \* the language field: the syntax tree of doc
  sel,            \* state.selection: [anchor, head]
  hideSyntax,     \* syntaxHiding.ts hideSyntaxField
  syntaxHiding,   \* syntax_hiding.ts syntaxHidingField
  hideMarks,      \* styling.ts hideMarksExtension.decorations
  imageDecos,     \* images.ts imageField
  mermaidDecos,   \* mermaid.ts mermaidField
  imageDom,       \* the mounted image widget instances
  mermaidDom,     \* the mounted diagram widget instances
  rebuilt,        \* hideSyntaxField has rebuilt at least once
  clicks,         \* the clicks delivered to checkbox widgets so far
  tr,             \* the last transaction, where transactions are observed:
                  \* its kind ("create", "edit", "select", "effects") and
                  \* its changes
  listeners,      \* the widgets' listeners registered on the global document
  drag,           \* the mouse: whether a button is held since a mousedown on
                  \* a resize handle, and the instance of that handle
  style,          \* the styles and classes the drag handlers set on containers
  renders,        \* the pending mermaid.render promises
  content,        \* the content element of every mounted diagram instance
  lastRender,     \* the container the last render() continuation wrote
                  \* into: "mounted" or "detached"
  theme,          \* mermaid.ts currentTheme
  timers,         \* the page's pending timeouts: [id, content]
  contentChangeTimeout,  \* editor.ts: the handle of the debounce timer,
                  \* NoTimer for null
  lastTimer,      \* the handle setTimeout returned last
  posted,         \* the last contentChanged message posted to the host,
                  \* and the parity of the number of messages posted
  palette,        \* the CommandPalette: active, triggerPos and the
                  \* display style of its element
  showTimers,     \* the positions of the pending show() timeouts
  bridge,         \* the EditorBridge of the host: isReady, cachedContent,
                  \* isUpdatingFromSwift; the messages of the page it has
                  \* not handled yet (inbox); whether the Task of its
                  \* 'ready' handler has still to run (push); the last
                  \* editorDidChangeContent of its delegate with the
                  \* parity of their number; the host's last call (api)
                  \* and what it threw
  scripts,        \* the evaluateJavaScript calls the web view has not
                  \* completed, in order
  coordinator,    \* the Coordinator of the EditorWebView and the text its
                  \* binding holds; the Tasks it has started that have not
                  \* run yet; who wrote the bound text last
  call,           \* the last call of a JavaScriptUtilities function that
                  \* is followed on its own: its argument and result
  env             \* what the user types: the menu of lines and the
                  \* longest document; whether transactions are observed;
                  \* the parts of the page that are followed besides the
                  \* editor state ("dom": the widgets' listeners and
                  \* styles, "render": the diagrams' renders), and
                  \* "plain" when the editor is configured without the
                  \* decoration fields

vars == << doc, tree, sel, hideSyntax, syntaxHiding, hideMarks, imageDecos,
           mermaidDecos, imageDom, mermaidDom, rebuilt, clicks, tr, listeners,
           drag, style, renders, content, lastRender, theme, timers,
           contentChangeTimeout, lastTimer, posted, palette, showTimers,
           bridge, scripts, call, coordinator, env >>

\* The mounted widget instances.
Mounted == Owners("image", Ids(imageDom)) \cup Owners("mermaid", Ids(mermaidDom))

NoDrag == [on |-> FALSE, owner |-> <<"none", 0>>]

NoRender == "none"

\* toDOM of the instances of dom2 that dom has not: each starts a render.
startRenders(dom, dom2, th) ==
  {renderPending(<<"mermaid", dom2[i].id>>, dom2[i].widget.code, th) :
     i \in {j \in 1..Len(dom2) : dom2[j].id \notin Ids(dom)}}

\* The current EditorState.
State == EditorState(doc, tree, sel)

\* Offsets a selection end can be put at: every line start and line end.
Positions(d) ==
  {LineFrom(d, i) : i \in 1..NumLines(d)} \cup {LineTo(d, i) : i \in 1..NumLines(d)}

\* EditorState.create and new EditorView: the fields' create() values, the
\* view plugin's constructor, the widgets' first toDOM; the cursor at 0.
InitParts(m, limit, observe, parts) ==
  /\ env = [menu |-> m, limit |-> limit, observe |-> observe, parts |-> parts]
  \* the page of the web view carries no data-content
  /\ doc \in IF "bridge" \in parts THEN {Text(<<"blank">>)}
             ELSE {Text(<<"blank">>)} \cup {Text(<<k>>) : k \in m}
  /\ tree = parseMarkdown(doc)
  /\ sel = [anchor |-> 0, head |-> 0]
  /\ hideSyntax = hideSyntaxCreate
  /\ syntaxHiding = IF "plain" \in parts THEN << >>
                    ELSE buildHidingDecorations(EditorState(doc, tree, sel))
  /\ hideMarks = IF "plain" \in parts THEN << >>
                 ELSE computeDecorations(EditorState(doc, tree, sel))
  /\ imageDecos = IF "plain" \in parts THEN << >>
                  ELSE buildImageDecorations(DocText(doc))
  /\ mermaidDecos = IF "plain" \in parts THEN << >>
                    ELSE buildMermaidDecorations(DocText(doc))
  /\ imageDom = syncWidgets(<< >>, imageDecos, NoChange)
  /\ mermaidDom = syncWidgets(<< >>, mermaidDecos, NoChange)
  /\ rebuilt = FALSE
  /\ clicks = 0
  /\ tr = [kind |-> "create", changes |-> NoChange]
  /\ listeners = {}
  /\ drag = NoDrag
  /\ style = {}
  /\ theme = "light"
  /\ renders = IF "render" \in parts THEN startRenders(<< >>, mermaidDom, theme)
               ELSE {}
  /\ content = [o \in (IF "render" \in parts
                        THEN Owners("mermaid", Ids(mermaidDom)) ELSE {})
                  |-> renderLoading]
  /\ lastRender = NoRender
  /\ timers = {}
  /\ contentChangeTimeout = NoTimer
  /\ lastTimer = NoTimer
  /\ posted = [n |-> 0, content |-> <<"none">>]
  /\ palette = CommandPalette("cursor" \in parts)
  /\ showTimers = {}
  /\ bridge = IF "bridge" \in parts THEN [EditorBridge EXCEPT !.inbox = << Ready >>]
              ELSE EditorBridge
  /\ scripts = << >>
  /\ coordinator \in IF "binding" \in parts
                     THEN {Coordinator(str) : str \in ContentsOf(m)}
                     ELSE {Coordinator(<< >>)}
  /\ call \in IF "escape" \in parts
              THEN {[NoCall EXCEPT !.arg = string] : string \in EscapeInputs}
              ELSE IF "wrap" \in parts
              THEN {[NoCall EXCEPT !.arg = x] :
                      x \in {y \in WrapInputs : /\ y.anchor <= Len(y.text)
                                                 /\ y.head <= Len(y.text)}}
              ELSE IF "slash" \in parts
              THEN {[NoCall EXCEPT !.arg = x] :
                      x \in {y \in SlashInputs : /\ y.anchor <= Len(y.text)
                                                  /\ y.head <= Len(y.text)}}
              ELSE IF "todo" \in parts
              THEN {[NoCall EXCEPT !.arg = x] :
                      x \in {y \in TodoInputs : y.head <= Len(y.text)}}
              ELSE {NoCall}

InitWith(m, limit, observe) == InitParts(m, limit, observe, {})

\* view.dispatch(tr): every field and the view update in one step; ks are
\* the lines of the new document, p is the palette after the update
\* listener has called its handleUpdate and ev is what the page keeps of
\* the last event of the palette.
UpdateWith(ks, s2, docChanged, selectionSet, ch, p, ev) ==
  LET d2  == IF docChanged THEN Text(ks) ELSE doc
      t2  == IF docChanged THEN parseMarkdown(d2) ELSE tree
      st2 == EditorState(d2, t2, s2)
      \* createMarkdownExtensions of extensions.ts installs no decoration field
      fields == "plain" \notin env.parts
      im2 == IF fields THEN imageFieldUpdate(imageDecos, DocText(d2), docChanged)
             ELSE imageDecos
      me2 == IF fields THEN mermaidFieldUpdate(mermaidDecos, DocText(d2), docChanged)
             ELSE mermaidDecos
      id2 == syncWidgets(imageDom, im2, ch)
      md2 == syncWidgets(mermaidDom, me2, ch)
      \* the instances whose DOM the view removes: the view calls destroy
      gone == Owners("image", Ids(imageDom) \ Ids(id2))
                \cup Owners("mermaid", Ids(mermaidDom) \ Ids(md2))
  IN /\ doc' = d2
     /\ tree' = t2
     /\ sel' = s2
     /\ hideSyntax' = IF fields
                      THEN hideSyntaxUpdate(hideSyntax, st2, docChanged, selectionSet)
                      ELSE hideSyntax
     /\ syntaxHiding' = IF fields
                        THEN syntaxHidingUpdate(syntaxHiding, st2, docChanged, selectionSet)
                        ELSE syntaxHiding
     /\ hideMarks' = IF fields
                     THEN hideMarksUpdate(hideMarks, st2, docChanged, selectionSet)
                     ELSE hideMarks
     /\ imageDecos' = im2
     /\ mermaidDecos' = me2
     /\ imageDom' = id2
     /\ mermaidDom' = md2
     /\ listeners' = IF "dom" \in env.parts THEN destroyAll(listeners, gone)
                     ELSE listeners
     /\ style' = IF "dom" \in env.parts
                 THEN {x \in style : x.owner \notin gone} ELSE style
     /\ drag' = drag
     /\ renders' = IF "render" \in env.parts
                   THEN {[r EXCEPT !.attached = r.attached /\ r.owner \notin gone] :
                           r \in renders}
                          \cup startRenders(mermaidDom, md2, theme)
                   ELSE renders
     /\ content' = IF "render" \in env.parts
                   THEN [o \in Owners("mermaid", Ids(md2)) |->
                           IF o \in DOMAIN content THEN content[o]
                           ELSE renderLoading]
                   ELSE content
     /\ Cardinality(renders') <= MaxPending
     /\ lastRender' = lastRender
     \* the update listener of editor.ts
     /\ LET page == IF "notify" \in env.parts /\ docChanged
                    THEN debounceContentChange(timers, contentChangeTimeout,
                                               lastTimer, DocText(d2))
                    ELSE [timers |-> timers, handle |-> contentChangeTimeout,
                          last |-> lastTimer]
        IN /\ timers' = page.timers
           /\ contentChangeTimeout' = page.handle
           /\ lastTimer' = page.last
           /\ Cardinality(timers') <= TimerIds - 1
     /\ posted' = posted
     /\ bridge' = bridge
     /\ call' = ev
     /\ coordinator' = coordinator
     /\ palette' = p
     /\ rebuilt' = (rebuilt \/ docChanged \/ selectionSet)
     /\ clicks' = clicks
     /\ tr' = IF env.observe
              THEN [kind |-> IF docChanged THEN "edit"
                             ELSE IF selectionSet THEN "select" ELSE "effects",
                    changes |-> ch]
              ELSE tr
     /\ env' = env

\* view.dispatch(tr) with the palette's handleUpdate.
Update(ks, s2, docChanged, selectionSet, ch) ==
  UpdateWith(ks, s2, docChanged, selectionSet, ch,
             IF "palette" \in env.parts
             THEN handleUpdate(palette, IF docChanged THEN Text(ks) ELSE doc,
                               s2, ch, docChanged, selectionSet,
                               "cursor" \in env.parts)
             ELSE palette,
             call)

\* A transaction that leaves the diagrams' theme alone.
Dispatch(ks, s2, docChanged, selectionSet, ch) ==
  /\ Update(ks, s2, docChanged, selectionSet, ch)
  /\ theme' = theme
  /\ showTimers' = showTimers
  /\ scripts' = scripts

InsertAt(ks, i, k) == SubSeq(ks, 1, i - 1) \o <<k>> \o SubSeq(ks, i, Len(ks))

RemoveAt(ks, i) == SubSeq(ks, 1, i - 1) \o SubSeq(ks, i + 1, Len(ks))

\* Typing a new line before line i, or after the last line.
InsertLine(i, k) ==
  /\ NumLines(doc) < MaxLines
  /\ i \in 1..(NumLines(doc) + 1)
  /\ DocLength(doc) + Len(LineText(k)) + 1 <= env.limit
  /\ LET at == IF i <= NumLines(doc) THEN LineFrom(doc, i) ELSE DocLength(doc)
         ch == [from |-> at, to |-> at, ins |-> Len(LineText(k)) + 1]
     IN Dispatch(InsertAt(doc.kinds, i, k), mapSelection(sel, ch), TRUE, FALSE, ch)

\* Deleting line i with its line break.
DeleteLine(i) ==
  /\ NumLines(doc) > 1
  /\ i \in 1..NumLines(doc)
  /\ LET ch == IF i < NumLines(doc)
               THEN [from |-> LineFrom(doc, i), to |-> LineFrom(doc, i + 1), ins |-> 0]
               ELSE [from |-> LineTo(doc, i - 1), to |-> DocLength(doc), ins |-> 0]
     IN Dispatch(RemoveAt(doc.kinds, i), mapSelection(sel, ch), TRUE, FALSE, ch)

\* Replacing the text of line i.
ReplaceLine(i, k) ==
  /\ i \in 1..NumLines(doc)
  /\ k # doc.kinds[i]
  /\ DocLength(doc) - Len(LineTextOf(doc, i)) + Len(LineText(k)) <= env.limit
  /\ LET ch == [from |-> LineFrom(doc, i), to |-> LineTo(doc, i),
                ins |-> Len(LineText(k))]
     IN Dispatch([doc.kinds EXCEPT ![i] = k], mapSelection(sel, ch), TRUE, FALSE, ch)

\* A click, a drag or editorAPI.setSelection: one range.
SetSelection(a, h) ==
  /\ a \in Positions(doc)
  /\ h \in Positions(doc)
  /\ Dispatch(doc.kinds, [anchor |-> a, head |-> h], FALSE, TRUE, NoChange)

\* editorAPI.updateConfiguration without a theme: a transaction of effects
\* only.
Reconfigure ==
  Dispatch(doc.kinds, sel, FALSE, FALSE, NoChange)

\* editorAPI.updateConfiguration({theme}), editorAPI.setTheme: the theme
\* compartment is reconfigured and setMermaidTheme is called.
SetTheme(th) ==
  /\ theme' = setMermaidTheme(th)
  /\ showTimers' = showTimers
  /\ scripts' = scripts
  /\ Update(doc.kinds, sel, FALSE, FALSE, NoChange)

Edit ==
  \/ \E i \in 1..(MaxLines + 1), k \in env.menu : InsertLine(i, k)
  \/ \E i \in 1..(MaxLines + 1) : DeleteLine(i)
  \/ \E i \in 1..(MaxLines + 1), k \in env.menu : ReplaceLine(i, k)

Click == \E p \in Positions(doc) : SetSelection(p, p)

Select == \E a \in Positions(doc), h \in Positions(doc) : SetSelection(a, h)

\* The state of the editor, which the page's mouse handlers do not touch.
editorVars == << doc, tree, sel, hideSyntax, syntaxHiding, hideMarks,
                 imageDecos, mermaidDecos, imageDom, mermaidDom, rebuilt,
                 clicks, tr, palette, showTimers, env >>

notifyVars == << timers, contentChangeTimeout, lastTimer, posted, bridge,
                 scripts, call, coordinator >>

renderVars == << renders, content, lastRender, theme >>

dragVars == << listeners, drag, style >>

MouseDownSelects(o) ==
  /\ o \in Mounted
  /\ ~drag.on
  /\ listeners' = onMouseDown(listeners, o)
  /\ style' = style \cup {[owner |-> o, prop |-> "resizing"]}
  /\ drag' = [on |-> TRUE, owner |-> o]
  /\ sel' = [anchor |-> DocLength(doc), head |-> DocLength(doc)]
  /\ UNCHANGED << doc, tree, hideSyntax, syntaxHiding, hideMarks, imageDecos,
                  mermaidDecos, imageDom, mermaidDom, rebuilt, clicks, tr,
                  palette, showTimers, env, renderVars, notifyVars >>

\* mousedown on the resize handle of a mounted instance.
MouseDown(o) ==
  /\ o \in Mounted
  /\ ~drag.on
  /\ listeners' = onMouseDown(listeners, o)
  /\ style' = style \cup {[owner |-> o, prop |-> "resizing"]}
  /\ drag' = [on |-> TRUE, owner |-> o]
  /\ UNCHANGED << editorVars, renderVars, notifyVars >>

\* mousemove while the button is held: the document runs its mousemove
\* listeners, each onMouseMove sets its container's width.
MouseMove ==
  /\ drag.on
  /\ style' = style \cup {[owner |-> l.owner, prop |-> "width"] :
                            l \in {x \in listeners : x.type = "mousemove"}}
  /\ UNCHANGED << listeners, drag >>
  /\ UNCHANGED << editorVars, renderVars, notifyVars >>

\* mouseup: the document runs its mouseup listeners, each onMouseUp removes
\* its two listeners and the container's resizing class.
MouseUp ==
  /\ drag.on
  /\ LET up == {l.owner : l \in {x \in listeners : x.type = "mouseup"}}
         RECURSIVE U(_, _)
         U(r, S) == IF S = {} THEN r
                    ELSE LET o == CHOOSE x \in S : TRUE
                         IN U(onMouseUp(r, o), S \ {o})
     IN /\ listeners' = U(listeners, up)
        /\ style' = style \ {[owner |-> o, prop |-> "resizing"] : o \in up}
  /\ drag' = NoDrag
  /\ UNCHANGED << editorVars, renderVars, notifyVars >>

Mouse == (\E o \in Mounted : MouseDown(o)) \/ MouseMove \/ MouseUp

\* mermaid.render settles and render() continues: it writes the svg, or the
\* error, into the content element it closed over.
RenderDone(r, ok) ==
  /\ r \in renders
  /\ renders' = renders \ {r}
  /\ LET h == IF ok THEN renderResolved(r) ELSE renderRejected(r)
     IN /\ content' = IF r.attached THEN [content EXCEPT ![r.owner] = h]
                      ELSE content
        /\ lastRender' = IF r.attached THEN "mounted" ELSE "detached"
  /\ theme' = theme
  /\ UNCHANGED << editorVars, dragVars, notifyVars >>

Render == \E r \in renders, ok \in BOOLEAN : RenderDone(r, ok)

\* The debounce timer t fires: the callback posts the text it captured and
\* clears the handle.
TimerFires(t) ==
  /\ t \in timers
  /\ timers' = timers \ {t}
  /\ posted' = [n |-> 1 - posted.n, content |-> t.content]
  /\ contentChangeTimeout' = NoTimer
  /\ lastTimer' = lastTimer
  \* userContentController(_:didReceive:) queues the message for the bridge
  /\ bridge' = IF "bridge" \in env.parts
               THEN [bridge EXCEPT !.inbox = Append(@, contentChanged(t.content))]
               ELSE bridge
  /\ UNCHANGED << scripts, call, coordinator >>
  /\ UNCHANGED << editorVars, renderVars, dragVars >>

\* The timer with handle id fires.
TimerFiresId(id) == \E t \in timers : t.id = id /\ TimerFires(t)

\* A click on the i-th decoration of hideSyntaxField when it is a mounted
\* CheckboxWidget.  The widget's toDOM registers no listener and the class
\* does not override ignoreEvent, so the view leaves the event alone:
\* nothing is dispatched.
ClickCheckbox(i) ==
  /\ i \in 1..Len(hideSyntax)
  /\ hideSyntax[i].kind = "CheckboxWidget"
  /\ clicks < MaxClicks
  /\ clicks' = clicks + 1
  /\ UNCHANGED << doc, tree, sel, hideSyntax, syntaxHiding, hideMarks,
                  imageDecos, mermaidDecos, imageDom, mermaidDom, rebuilt, tr,
                  palette, showTimers, env, renderVars, dragVars,
                  notifyVars >>

(***************************************************************************)
(* Formatting commands (themes.ts, imported as "./formatting"; editor.ts)  *)
(***************************************************************************)

\* The lines of a text: the pieces between its line breaks.
SplitLines(T) ==
  LET RECURSIVE S(_, _, _)
      S(i, cur, out) == IF i > Len(T) THEN Append(out, cur)
                        ELSE IF T[i] = NL THEN S(i + 1, << >>, Append(out, cur))
                        ELSE S(i + 1, Append(cur, T[i]), out)
  IN S(1, << >>, << >>)

\* The lines of a text as menu lines, when every one of them is one.
KindsOf(T) ==
  LET L == SplitLines(T)
  IN [i \in 1..Len(L) |->
        IF \E k \in AllKinds : LineText(k) = L[i]
        THEN CHOOSE k \in AllKinds : LineText(k) = L[i]
        ELSE "none"]

\* The document (a Text) of any string: its lines are named only where they
\* are menu lines.
StringDoc(T) ==
  LET L == SplitLines(T)
      RECURSIVE F(_)
      F(j) == IF j = 1 THEN << 0 >>
              ELSE LET q == F(j - 1)
                   IN Append(q, q[j - 1] + Len(L[j - 1]) + 1)
      st == F(Len(L))
  IN [kinds |-> KindsOf(T),
      from  |-> st,
      to    |-> [i \in 1..Len(L) |-> st[i] + Len(L[i])],
      text  |-> T]

\* The number of characters of cs that t carries from index i on.
CountOf(t, i, cs) ==
  LET RECURSIVE R(_)
      R(j) == IF j <= Len(t) /\ t[j] \in cs THEN 1 + R(j + 1) ELSE 0
  IN R(i)

At(t, i) == IF i >= 1 /\ i <= Len(t) THEN t[i] ELSE "EOF"

NoMatch == -1

\* text.match(/^\s*[-*+]\s+/): the length of match[0], or NoMatch
matchList(t) ==
  LET a == CountOf(t, 1, WhiteSpace)
      w == CountOf(t, a + 2, WhiteSpace)
  IN IF At(t, a + 1) \in {"-", "*", "+"} /\ w >= 1 THEN a + 1 + w ELSE NoMatch

\* text.match(/^\s*\d+\.\s+/)
matchOrdered(t) ==
  LET a == CountOf(t, 1, WhiteSpace)
      d == CountOf(t, a + 1, Digits)
      w == CountOf(t, a + d + 2, WhiteSpace)
  IN IF d >= 1 /\ At(t, a + d + 1) = "." /\ w >= 1 THEN a + d + 1 + w ELSE NoMatch

matchBoxNoTrail(t, box) ==
  LET a == CountOf(t, 1, WhiteSpace)
      b == CountOf(t, a + 2, WhiteSpace)
  IN IF /\ At(t, a + 1) = "-"
        /\ At(t, a + b + 2) = "["
        /\ At(t, a + b + 3) \in box
        /\ At(t, a + b + 4) = "]"
     THEN a + b + 4 ELSE NoMatch

\* text.match(/^\s*-\s*\[x\]\s?/i) with box = {"x", "X"},
\* text.match(/^\s*-\s*\[ \]\s?/) with box = {" "}
matchBox(t, box) ==
  LET a == CountOf(t, 1, WhiteSpace)
      b == CountOf(t, a + 2, WhiteSpace)
      Fits(n) == /\ At(t, a + 1) = "-"
                 /\ At(t, a + n + 2) = "["
                 /\ At(t, a + n + 3) \in box
                 /\ At(t, a + n + 4) = "]"
      Trail(n) == IF At(t, a + n + 5) \in WhiteSpace THEN 1 ELSE 0
  IN IF Fits(b) THEN a + b + 4 + Trail(b) ELSE NoMatch

ListPrefix == <<"-", " ">>

OrderedPrefix == <<"1", ".", " ">>

TodoPrefix == <<"-", " ", "[", " ", "]", " ">>

DonePrefix == <<"-", " ", "[", "x", "]", " ">>

\* What a command hands to dispatch: one change and the selection.
Cmd(f, t, insert, a, h) ==
  [from |-> f, to |-> t, insert |-> insert, anchor |-> a, head |-> h]

\* toggleLinePrefix: m is the length of the pattern's match on the line of
\* the head, or NoMatch.
toggleLinePrefix(d, s, m, prefix) ==
  LET from == LineFrom(d, lineAt(d, s.head))
  IN IF m # NoMatch
     THEN Cmd(from, from + m, << >>, s.head - m, s.head - m)
     ELSE Cmd(from, from, prefix, s.head + Len(prefix), s.head + Len(prefix))

toggleList(d, s) ==
  toggleLinePrefix(d, s, matchList(LineTextOf(d, lineAt(d, s.head))), ListPrefix)

toggleOrderedList(d, s) ==
  toggleLinePrefix(d, s, matchOrdered(LineTextOf(d, lineAt(d, s.head))),
                   OrderedPrefix)

cycleTodo(d, s) ==
  LET line == lineAt(d, s.head)
      from == LineFrom(d, line)
      text == LineTextOf(d, line)
      completedMatch == matchBox(text, {"x", "X"})
      todoMatch == matchBox(text, {" "})
      listMatch == matchList(text)
  IN IF completedMatch # NoMatch
     THEN Cmd(from, from + completedMatch, << >>,
              s.head - completedMatch, s.head - completedMatch)
     ELSE IF todoMatch # NoMatch
     THEN LET diff == Len(DonePrefix) - todoMatch
              textStart == from + Len(DonePrefix)
              newHead == Max2(s.head + diff, textStart)
          IN Cmd(from, from + todoMatch, DonePrefix, newHead, newHead)
     ELSE IF listMatch # NoMatch
     THEN LET diff == Len(TodoPrefix) - listMatch
          IN Cmd(from, from + listMatch, TodoPrefix, s.head + diff, s.head + diff)
     ELSE Cmd(from, from, TodoPrefix, s.head + Len(TodoPrefix),
              s.head + Len(TodoPrefix))

wrapSelectionBeforeOnly(d, s, prefix) ==
  LET from == MainRange(s).from
      to == MainRange(s).to
      selectedText == sliceDoc(d, from, to)
      beforeStart == Max2(0, from - Len(prefix))
      afterEnd == Min2(DocLength(d), to + Len(prefix))
  IN IF sliceDoc(d, beforeStart, from) = prefix
     THEN Cmd(beforeStart, afterEnd, selectedText,
              beforeStart, beforeStart + Len(selectedText))
     ELSE Cmd(from, to, prefix \o selectedText \o prefix,
              from + Len(prefix), from + Len(prefix) + Len(selectedText))

\* wrapSelection(prefix): the two deletions of the unwrap branch are one
\* replacement of the wrapped text by the selected text.
wrapSelection(d, s, prefix) ==
  LET from == MainRange(s).from
      to == MainRange(s).to
      selectedText == sliceDoc(d, from, to)
      beforeStart == Max2(0, from - Len(prefix))
      afterEnd == Min2(DocLength(d), to + Len(prefix))
      textBefore == sliceDoc(d, beforeStart, from)
      textAfter == sliceDoc(d, to, afterEnd)
  IN IF textBefore = prefix /\ textAfter = prefix
     THEN Cmd(beforeStart, afterEnd, selectedText,
              beforeStart, beforeStart + Len(selectedText))
     ELSE Cmd(from, to, prefix \o selectedText \o prefix,
              from + Len(prefix), from + Len(prefix) + Len(selectedText))

\* insertAtLineStart(prefix)
insertAtLineStart(d, s, prefix) ==
  LET from == MainRange(s).from
      line == lineAt(d, from)
  IN Cmd(LineFrom(d, line), LineFrom(d, line), prefix,
         from + Len(prefix), from + Len(prefix))

\* insertCodeBlock(): insertText of the empty block, then the cursor is put
\* four characters back.
insertCodeBlock(d, s) ==
  LET from == MainRange(s).from
      to == MainRange(s).to
      text == <<BQ, BQ, BQ, NL, NL, BQ, BQ, BQ>>
  IN Cmd(from, to, text, from + Len(text) - 4, from + Len(text) - 4)

\* Transaction creation (checkSelection): true when the selection is
\* refused with a RangeError, which is when a range ends after the document.
checkSelectionThrows(s, docLength) == MainRange(s).to > docLength

\* changes.apply(doc) for the one change of c, as a string.
applyChange(T, c) ==
  SubSeq(T, 1, c.from) \o c.insert \o SubSeq(T, c.to + 1, Len(T))

\* The transaction of one change and a selection.  A refused transaction
\* leaves the state as it was.
Change(c) ==
  LET T2 == applyChange(doc.text, c)
      ks == KindsOf(T2)
      s2 == [anchor |-> c.anchor, head |-> c.head]
  IN /\ ~checkSelectionThrows(s2, Len(T2))
     /\ Len(T2) <= env.limit
     /\ Len(ks) <= MaxLines
     /\ \A i \in 1..Len(ks) : ks[i] \in env.menu \cup {"blank"}
     /\ Update(ks, s2, TRUE, TRUE,
               [from |-> c.from, to |-> c.to, ins |-> Len(c.insert)])

DispatchCommand(c) ==
  Change(c) /\ theme' = theme /\ showTimers' = showTimers /\ scripts' = scripts

\* doc.lineAt throws for a position outside the document, and the command
\* with it: the commands act from a selection inside the document.
InDocument(s) ==
  /\ 0 <= MainRange(s).from
  /\ MainRange(s).to <= DocLength(doc)

ToggleList == InDocument(sel) /\ DispatchCommand(toggleList(doc, sel))

ToggleOrderedList == InDocument(sel) /\ DispatchCommand(toggleOrderedList(doc, sel))

CycleTodo == InDocument(sel) /\ DispatchCommand(cycleTodo(doc, sel))

\* editorAPI.toggleItalic
ToggleItalic == InDocument(sel) /\ DispatchCommand(wrapSelection(doc, sel, <<"*">>))

\* editorAPI.insertList(ordered)
InsertList(ordered) ==
  /\ InDocument(sel)
  /\ DispatchCommand(insertAtLineStart(doc, sel, IF ordered THEN OrderedPrefix
                                      ELSE ListPrefix))

\* editorAPI.insertCodeBlock()
InsertCodeBlock == InDocument(sel) /\ DispatchCommand(insertCodeBlock(doc, sel))

\* The positions a caller of editorAPI.setSelection passes: the offsets of
\* the document, one before the first and one after the last.
ApiPositions(d) == Positions(d) \cup {-1, DocLength(d) + 1}

\* editorAPI.setSelection(from, to)
setSelection(from, to) ==
  LET s2 == [anchor |-> from, head |-> to]
  IN /\ ~checkSelectionThrows(s2, DocLength(doc))
     /\ Dispatch(doc.kinds, s2, FALSE, TRUE, NoChange)

\* The "/" key: handleKey (capture phase) schedules show() when the palette
\* is not active and the cursor follows a blank or starts a line; then the
\* character is typed over the selection.
TypeSlash ==
  /\ InDocument(sel)
  /\ LET from == MainRange(sel).from
     IN /\ showTimers' = IF ~palette.active /\ isTrigger(doc, from)
                         THEN showTimers \cup {from} ELSE showTimers
        /\ Change(Cmd(from, MainRange(sel).to, <<"/">>, from + 1, from + 1))
        /\ theme' = theme
        /\ scripts' = scripts

\* The timeout of handleKey fires: show(..., from).
ShowFires(from) ==
  /\ from \in showTimers
  /\ showTimers' = showTimers \ {from}
  /\ palette' = show(palette, from, "cursor" \in env.parts)
  /\ UNCHANGED << doc, tree, sel, hideSyntax, syntaxHiding, hideMarks,
                  imageDecos, mermaidDecos, imageDom, mermaidDom, rebuilt,
                  clicks, tr, env, renderVars, dragVars, notifyVars >>

(***************************************************************************)
(* command_palette.ts : the keys of the active palette and selectItem      *)
(***************************************************************************)

\* The texts the items of the section Diagrams insert.
MermaidDiagramText ==
  <<BQ, BQ, BQ, "m", "e", "r", "m", "a", "i", "d", NL, "g", "r", "a",
    "p", "h", " ", "T", "D", NL, " ", " ", "A", " ", "-", "-", ">",
    " ", "B", NL, BQ, BQ, BQ>>

FlowchartText ==
  <<BQ, BQ, BQ, "m", "e", "r", "m", "a", "i", "d", NL, "g", "r", "a",
    "p", "h", " ", "L", "R", NL, " ", " ", "A", "[", "S", "t", "a",
    "r", "t", "]", " ", "-", "-", ">", " ", "B", "{", "D", "e", "c",
    "i", "s", "i", "o", "n", "}", NL, " ", " ", "B", " ", "-", "-",
    ">", "|", "Y", "e", "s", "|", " ", "C", "[", "O", "K", "]", NL,
    " ", " ", "B", " ", "-", "-", ">", "|", "N", "o", "|", " ", "D",
    "[", "C", "a", "n", "c", "e", "l", "]", NL, BQ, BQ, BQ>>

SequenceDiagramText ==
  <<BQ, BQ, BQ, "m", "e", "r", "m", "a", "i", "d", NL, "s", "e", "q",
    "u", "e", "n", "c", "e", "D", "i", "a", "g", "r", "a", "m", NL,
    " ", " ", "A", "l", "i", "c", "e", "-", ">", ">", "J", "o", "h",
    "n", ":", " ", "H", "e", "l", "l", "o", " ", "J", "o", "h", "n",
    ",", " ", "h", "o", "w", " ", "a", "r", "e", " ", "y", "o", "u",
    "?", NL, " ", " ", "J", "o", "h", "n", "-", "-", ">", ">", "A",
    "l", "i", "c", "e", ":", " ", "G", "r", "e", "a", "t", "!", NL, BQ,
    BQ, BQ>>

ClassDiagramText ==
  <<BQ, BQ, BQ, "m", "e", "r", "m", "a", "i", "d", NL, "c", "l", "a",
    "s", "s", "D", "i", "a", "g", "r", "a", "m", NL, " ", " ", "A",
    "n", "i", "m", "a", "l", " ", "<", "|", "-", "-", " ", "D", "u",
    "c", "k", NL, " ", " ", "A", "n", "i", "m", "a", "l", " ", ":",
    " ", "+", "i", "n", "t", " ", "a", "g", "e", NL, " ", " ", "A",
    "n", "i", "m", "a", "l", " ", ":", " ", "+", "S", "t", "r", "i",
    "n", "g", " ", "g", "e", "n", "d", "e", "r", NL, " ", " ", "c",
    "l", "a", "s", "s", " ", "D", "u", "c", "k", "{", NL, " ", " ",
    " ", " ", "+", "S", "t", "r", "i", "n", "g", " ", "b", "e", "a",
    "k", "C", "o", "l", "o", "r", NL, " ", " ", " ", " ", "+", "s",
    "w", "i", "m", "(", ")", NL, " ", " ", " ", " ", "+", "q", "u",
    "a", "c", "k", "(", ")", NL, " ", " ", "}", NL, BQ, BQ, BQ>>

MindmapText ==
  <<BQ, BQ, BQ, "m", "e", "r", "m", "a", "i", "d", NL, "m", "i", "n",
    "d", "m", "a", "p", NL, " ", " ", "r", "o", "o", "t", "(", "(",
    "m", "i", "n", "d", "m", "a", "p", ")", ")", NL, " ", " ", " ",
    " ", "O", "r", "i", "g", "i", "n", "s", NL, " ", " ", " ", " ",
    "R", "e", "s", "e", "a", "r", "c", "h", NL, " ", " ", " ", " ",
    "T", "o", "o", "l", "s", NL, BQ, BQ, BQ>>

\* insertText(text)
insertText(d, s, text) ==
  LET from == MainRange(s).from
  IN Cmd(from, MainRange(s).to, text, from + Len(text), from + Len(text))

\* A dispatch of one change without a selection: the selection is mapped.
insertMapped(d, s, text) ==
  LET from == MainRange(s).from
      to == MainRange(s).to
      s2 == mapSelection(s, [from |-> from, to |-> to, ins |-> Len(text)])
  IN Cmd(from, to, text, s2.anchor, s2.head)

\* editorAPI.insertLink(""): the selected text, or "link text"
insertLink(d, s) ==
  LET selectedText == sliceDoc(d, MainRange(s).from, MainRange(s).to)
      linkText == IF selectedText # << >> THEN selectedText
                  ELSE <<"l", "i", "n", "k", " ", "t", "e", "x", "t">>
  IN insertMapped(d, s, <<"[">> \o linkText
                          \o <<"]", "(", "h", "t", "t", "p", "s", ":", "/", "/", ")">>)

\* editorAPI.insertImage("")
insertImage(d, s) ==
  insertMapped(d, s, <<"!", "[", "i", "m", "a", "g", "e", "]", "(",
                       "h", "t", "t", "p", "s", ":", "/", "/", ")">>)

\* item.apply(view) in the state with document d and selection s: what it
\* dispatches.
apply(name, d, s) ==
  CASE name = "toggleBold" -> wrapSelection(d, s, <<"*", "*">>)
    [] name = "toggleItalic" -> wrapSelection(d, s, <<"*">>)
    [] name = "toggleStrikethrough" -> wrapSelection(d, s, <<"~", "~">>)
    [] name = "toggleCode" -> wrapSelection(d, s, <<BQ>>)
    [] name = "insertHeading1" -> insertAtLineStart(d, s, <<"#", " ">>)
    [] name = "insertHeading2" -> insertAtLineStart(d, s, <<"#", "#", " ">>)
    [] name = "insertHeading3" -> insertAtLineStart(d, s, <<"#", "#", "#", " ">>)
    [] name = "insertList" -> insertAtLineStart(d, s, ListPrefix)
    [] name = "insertOrderedList" -> insertAtLineStart(d, s, OrderedPrefix)
    [] name = "taskList" -> insertAtLineStart(d, s, TodoPrefix)
    [] name = "insertBlockquote" -> insertAtLineStart(d, s, <<">", " ">>)
    [] name = "insertCodeBlock" -> insertCodeBlock(d, s)
    [] name = "insertHorizontalRule" ->
         insertText(d, s, <<NL, "-", "-", "-", NL>>)
    [] name = "insertLink" -> insertLink(d, s)
    [] name = "insertImage" -> insertImage(d, s)
    [] name = "mermaid" -> insertText(d, s, MermaidDiagramText)
    [] name = "flowchart" -> insertText(d, s, FlowchartText)
    [] name = "sequence" -> insertText(d, s, SequenceDiagramText)
    [] name = "class" -> insertText(d, s, ClassDiagramText)
    [] name = "mindmap" -> insertText(d, s, MindmapText)

\* The keys handleKey has a case for.
Keys == {"ArrowDown", "ArrowUp", "Enter", "Tab", "Escape"}

\* What the page keeps of the last event of the palette: the key or
\* "click", and whether the listener consumed the event (preventDefault and
\* stopPropagation).
Event(key, consumed) ==
  [fn |-> "handleKey", arg |-> key, result |-> [consumed |-> consumed]]

\* A listener that dispatches nothing: the palette after it is p.
Handled(p, key, consumed) ==
  /\ palette' = p
  /\ call' = Event(key, consumed)
  /\ UNCHANGED << doc, tree, sel, hideSyntax, syntaxHiding, hideMarks,
                  imageDecos, mermaidDecos, imageDom, mermaidDom, rebuilt,
                  clicks, tr, showTimers, env, renderVars, dragVars, timers,
                  contentChangeTimeout, lastTimer, posted, bridge, scripts,
                  coordinator >>

\* selectItem(index) from the listener of key.  The two transactions (the
\* removal from the trigger to the cursor, then the one of item.apply) and
\* hide() are one step; the update listener runs handleUpdate after each
\* transaction.  In command_palette.ts the removal is dispatched whatever
\* the cursor is, and a change whose from is after its to is refused with
\* a RangeError, which ends the listener.
selectItem(index, key) ==
  LET cursor == "cursor" \in env.parts
      from == MainRange(sel).from
  IN IF index + 1 > Len(palette.renderItems)
     THEN Handled(palette, key, TRUE)
     ELSE IF ~cursor /\ palette.triggerPos >= 0 /\ from < palette.triggerPos
     THEN Handled(palette, key, FALSE)
     ELSE
       \E rm \in {IF palette.triggerPos >= 0 /\ from >= palette.triggerPos
                  THEN [from |-> palette.triggerPos, to |-> from, ins |-> 0]
                  ELSE NoChange} :
       \E T1 \in {applyChange(doc.text, [from |-> rm.from, to |-> rm.to,
                                           insert |-> << >>])} :
       \E d1 \in {StringDoc(T1)} :
       \E s1 \in {mapSelection(sel, rm)} :
       \E p1 \in {handleUpdate(palette, d1, s1, rm, rm.to > rm.from, FALSE,
                                cursor)} :
       \E c \in {apply(commands[palette.renderItems[index + 1]].apply,
                        d1, s1)} :
       \E T2 \in {T \in {applyChange(T1, c)} : Len(T) <= MaxSelectLength} :
       \E ks \in {KindsOf(T2)} :
       \E s2 \in {[anchor |-> c.anchor, head |-> c.head]} :
       \E ch \in {[from |-> c.from, to |-> c.to, ins |-> Len(c.insert)]} :
         /\ ~checkSelectionThrows(s2, Len(T2))
         /\ Len(ks) <= MaxLines
         /\ \A i \in 1..Len(ks) : ks[i] \in env.menu \cup {"blank"}
         /\ UpdateWith(ks, s2, TRUE, TRUE, ch,
                       hide(handleUpdate(p1, Text(ks), s2, ch, TRUE, TRUE,
                                         cursor)),
                       Event(key, TRUE))
         /\ theme' = theme
         /\ showTimers' = showTimers
         /\ scripts' = scripts

\* handleKey(event) for a key of Keys.  What the editor does with a key that
\* reaches it are the steps of Edit and Click.
KeyDown(key) ==
  /\ "palette" \in env.parts
  /\ InDocument(sel)
  /\ LET itemCount == Len(palette.renderItems)
         guarded == "cursor" \in env.parts
     IN IF ~palette.active THEN Handled(palette, key, FALSE)
        ELSE CASE key = "ArrowDown" ->
                    IF guarded /\ itemCount = 0
                    THEN Handled(palette, key, FALSE)
                    ELSE Handled([palette EXCEPT !.selectedIndex =
                                    (@ + 1) % itemCount], key, TRUE)
               [] key = "ArrowUp" ->
                    IF guarded /\ itemCount = 0
                    THEN Handled(palette, key, FALSE)
                    ELSE Handled([palette EXCEPT !.selectedIndex =
                                    (@ - 1 + itemCount) % itemCount], key, TRUE)
               [] key \in {"Enter", "Tab"} ->
                    IF guarded /\ itemCount = 0
                    THEN Handled(hide(palette), key, FALSE)
                    ELSE selectItem(palette.selectedIndex, key)
               [] key = "Escape" -> Handled(hide(palette), key, TRUE)

\* el.onclick of the item at index of the list.
ClickItem(index) ==
  /\ "palette" \in env.parts
  /\ InDocument(sel)
  /\ palette.display = "flex"
  /\ index < Len(palette.renderItems)
  /\ selectItem(index, "click")

PaletteKeys == (\E key \in Keys : KeyDown(key))
                 \/ (\E index \in 0..(Len(commands) - 1) : ClickItem(index))

Format ==
  \/ ToggleList
  \/ ToggleOrderedList
  \/ CycleTodo
  \/ ToggleItalic
  \/ \E ordered \in BOOLEAN : InsertList(ordered)
  \/ InsertCodeBlock
  \/ \E from \in ApiPositions(doc), to \in ApiPositions(doc) : setSelection(from, to)

(***************************************************************************)
(* The host: EditorBridge, the web view's script evaluation, the messages  *)
(***************************************************************************)

Contents == ContentsOf(env.menu)

\* The calls and messages on their way between the host and the page.
InFlight == Len(scripts) + Cardinality(timers) + Len(bridge.inbox)

\* Whether the host may make one more call that reaches the page: a host
\* that awaits each call ("serial") has none pending.
MaySend == InFlight < (IF "serial" \in env.parts THEN 1 ELSE MaxScripts)

\* The host's last call and the parity of the number of its calls, where
\* the calls are observed.
Api(fn, args) ==
  IF env.observe THEN [fn |-> fn, args |-> args, n |-> 1 - bridge.api.n]
  ELSE NoApi

Script(method, args, str, task) ==
  [method |-> method, args |-> args, content |-> str, task |-> task,
   state |-> "sent"]

\* setContent(_:) up to its await; task tells the caller: "push" for the
\* Task of the bridge's 'ready' handler, whose errors are dropped (try?),
\* "host" for a call of the host, "update" and "ready" for the Tasks of the
\* Coordinator.
setContentCall(str, task) ==
  LET e  == validateInput(str, maxLength)
      b1 == IF task = "push" THEN [bridge EXCEPT !.push = FALSE]
            ELSE [bridge EXCEPT !.api = Api("setContent", str)]
      th(x) == IF task = "push" THEN bridge.thrown ELSE x
  IN IF e # NoError
     THEN /\ bridge' = [b1 EXCEPT !.thrown = th(e)]
          /\ scripts' = scripts
     ELSE IF ~bridge.isReady
     THEN /\ bridge' = [b1 EXCEPT !.cachedContent = str, !.thrown = th(NoError)]
          /\ scripts' = scripts
     ELSE /\ MaySend
          /\ bridge' = [b1 EXCEPT !.isUpdatingFromSwift = TRUE]
          /\ scripts' = Append(scripts,
                               Script("setContent", toJavaScript(str), str, task))

\* The host calls setContent(str).
bridgeSetContent(str) ==
  /\ "boot" \in env.parts => ~bridge.isReady
  /\ setContentCall(str, "host")
  /\ UNCHANGED << editorVars, renderVars, dragVars, timers,
                  contentChangeTimeout, lastTimer, posted, call, coordinator >>

\* Task { try? await setContent(cachedContent) } of the 'ready' handler
\* starts running.
pushCachedContent ==
  /\ bridge.push
  /\ setContentCall(bridge.cachedContent, "push")
  /\ UNCHANGED << editorVars, renderVars, dragVars, timers,
                  contentChangeTimeout, lastTimer, posted, call, coordinator >>

\* The host calls setSelection(from:to:), up to its await.
bridgeSetSelection(from, to) ==
  LET b1 == [bridge EXCEPT !.api = Api("setSelection", << from, to >>)]
      e  == IF ~bridge.isReady THEN editorNotReady ELSE validateSelection(from, to)
  IN /\ IF e # NoError
        THEN /\ bridge' = [b1 EXCEPT !.thrown = e]
             /\ scripts' = scripts
        ELSE /\ MaySend
             /\ bridge' = b1
             /\ scripts' = Append(scripts,
                                  Script("setSelection", << from, to >>, << >>, "host"))
     /\ UNCHANGED << editorVars, renderVars, dragVars, timers,
                     contentChangeTimeout, lastTimer, posted, call, coordinator >>

\* editorAPI.setContent(str): the whole document is replaced
setContent(str) ==
  LET ch == [from |-> 0, to |-> DocLength(doc), ins |-> Len(str)]
      docChanged == ~(DocLength(doc) = 0 /\ str = << >>)
  IN \E ks \in {KindsOf(str)} :
       /\ \A i \in 1..Len(ks) : ks[i] \in env.menu \cup {"blank"}
       /\ Update(ks, mapSelection(sel, ch), docChanged, FALSE, ch)
       /\ theme' = theme
       /\ showTimers' = showTimers

\* The page evaluates the oldest script it has not evaluated yet.  A
\* script whose string literal does not read, or whose call throws, fails.
evaluateJavaScript(i) ==
  /\ i \in 1..Len(scripts)
  /\ scripts[i].state = "sent"
  /\ \A j \in 1..(i - 1) : scripts[j].state # "sent"
  /\ \E v \in {StringValue(SubSeq(scripts[i].args, 2, Len(scripts[i].args) - 1))} :
     LET sc == scripts[i]
         throws == IF sc.method = "setContent" THEN ~v.ok
                   ELSE checkSelectionThrows([anchor |-> sc.args[1], head |-> sc.args[2]],
                                             DocLength(doc))
     IN /\ scripts' = [scripts EXCEPT ![i].state = IF throws THEN "failed" ELSE "done"]
        /\ IF throws
           THEN UNCHANGED << editorVars, renderVars, dragVars, timers,
                             contentChangeTimeout, lastTimer, posted, bridge, call,
                             coordinator >>
           ELSE IF sc.method = "setContent"
           THEN setContent(v.value)
           ELSE /\ Update(doc.kinds, [anchor |-> sc.args[1], head |-> sc.args[2]],
                          FALSE, TRUE, NoChange)
                /\ theme' = theme
                /\ showTimers' = showTimers

\* evaluateJavaScript returns to the bridge: setContent continues after its
\* await (cachedContent = validatedContent, or the catch block) and its
\* defer block runs.
evaluateJavaScriptReturns ==
  /\ scripts # << >>
  /\ scripts[1].state # "sent"
  /\ LET sc == scripts[1]
         e  == IF sc.state = "failed" THEN javaScriptEvaluationFailed(sc.method)
               ELSE NoError
         b1 == IF sc.task = "push" THEN bridge ELSE [bridge EXCEPT !.thrown = e]
     IN bridge' = IF sc.method = "setContent"
                  THEN [b1 EXCEPT !.cachedContent = IF sc.state = "done" THEN sc.content
                                                   ELSE @,
                                  !.isUpdatingFromSwift = FALSE]
                  ELSE b1
  /\ scripts' = Tail(scripts)
  \* the Task of editorDidBecomeReady continues after its await
  /\ coordinator' = IF scripts[1].task = "ready" THEN readyTaskReturns(coordinator)
                    ELSE coordinator
  /\ UNCHANGED << editorVars, renderVars, dragVars, timers,
                  contentChangeTimeout, lastTimer, posted, call >>

handleMessageNoPush ==
  /\ bridge.inbox # << >>
  /\ LET m  == Head(bridge.inbox)
         b1 == [bridge EXCEPT !.inbox = Tail(@)]
     IN bridge' =
          IF m.type = "contentChanged"
          THEN IF bridge.isUpdatingFromSwift THEN b1
               ELSE [b1 EXCEPT !.cachedContent = m.content,
                               !.delegate = [n |-> 1 - @.n, content |-> m.content]]
          ELSE [b1 EXCEPT !.isReady = TRUE]
  /\ coordinator' =
       IF "binding" \notin env.parts THEN coordinator
       ELSE IF Head(bridge.inbox).type = "contentChanged"
       THEN IF bridge.isUpdatingFromSwift THEN coordinator
            ELSE editorDidChangeContent(coordinator, Head(bridge.inbox).content)
       ELSE editorDidBecomeReady(coordinator)
  /\ UNCHANGED << editorVars, renderVars, dragVars, timers,
                  contentChangeTimeout, lastTimer, posted, scripts, call >>

\* handleMessage(_:) for the oldest message of the page.
handleMessage ==
  /\ bridge.inbox # << >>
  /\ LET m  == Head(bridge.inbox)
         b1 == [bridge EXCEPT !.inbox = Tail(@)]
     IN bridge' =
          IF m.type = "contentChanged"
          THEN IF bridge.isUpdatingFromSwift THEN b1
               ELSE [b1 EXCEPT !.cachedContent = m.content,
                               !.delegate = [n |-> 1 - @.n, content |-> m.content]]
          ELSE [b1 EXCEPT !.isReady = TRUE,
                          !.push = (bridge.cachedContent # << >>)]
  /\ coordinator' =
       IF "binding" \notin env.parts THEN coordinator
       ELSE IF Head(bridge.inbox).type = "contentChanged"
       THEN IF bridge.isUpdatingFromSwift THEN coordinator
            ELSE editorDidChangeContent(coordinator, Head(bridge.inbox).content)
       ELSE editorDidBecomeReady(coordinator)
  /\ UNCHANGED << editorVars, renderVars, dragVars, timers,
                  contentChangeTimeout, lastTimer, posted, scripts, call >>

\* JavaScriptUtilities.escapeJavaScriptString(call.arg)
Escape ==
  /\ call.fn = "none"
  /\ call' = [call EXCEPT !.fn = "escapeJavaScriptString",
                          !.result = escapeJavaScriptString(call.arg)]
  /\ UNCHANGED << editorVars, renderVars, dragVars, timers,
                  contentChangeTimeout, lastTimer, posted, bridge, scripts,
                  coordinator >>

(***************************************************************************)
(* commands.ts : slashCommandCompletion, slashCommandKeymap                *)
(***************************************************************************)

\* slashCommands: the labels, in order.
slashCommands ==
  << <<"b", "o", "l", "d">>,
     <<"i", "t", "a", "l", "i", "c">>,
     <<"s", "t", "r", "i", "k", "e", "t", "h", "r", "o", "u", "g", "h">>,
     <<"c", "o", "d", "e">>,
     <<"h", "1">>,
     <<"h", "2">>,
     <<"h", "3">>,
     <<"h", "4">>,
     <<"h", "5">>,
     <<"h", "6">>,
     <<"b", "u", "l", "l", "e", "t">>,
     <<"n", "u", "m", "b", "e", "r", "e", "d">>,
     <<"t", "o", "d", "o">>,
     <<"q", "u", "o", "t", "e">>,
     <<"c", "o", "d", "e", "b", "l", "o", "c", "k">>,
     <<"d", "i", "v", "i", "d", "e", "r">>,
     <<"l", "i", "n", "k">>,
     <<"i", "m", "a", "g", "e">> >>

\* \w
WordChars ==
  {UpperCase[j] : j \in 1..26} \cup {LowerCase[j] : j \in 1..26} \cup Digits \cup {"_"}

\* String.prototype.lastIndexOf for one character: -1 when it is absent
lastIndexOf(str, c) ==
  LET RECURSIVE R(_)
      R(i) == IF i = 0 THEN -1 ELSE IF str[i] = c THEN i - 1 ELSE R(i - 1)
  IN R(Len(str))

\* textBefore.match(/(?:^|\s)\/(\w*)$/): the group (\w*) in a one-element
\* sequence, or the empty sequence for null.  The group is the longest run
\* of word characters that ends the text: "/" is not a word character.
slashMatchAnywhere(textBefore) ==
  LET RECURSIVE R(_)
      R(i) == IF i >= 1 /\ textBefore[i] \in WordChars THEN R(i - 1) ELSE i
      k == R(Len(textBefore))
  IN IF k >= 1 /\ textBefore[k] = "/"
     THEN << SubSeq(textBefore, k + 1, Len(textBefore)) >>
     ELSE << >>

slashMatch(textBefore) ==
  LET RECURSIVE R(_)
      R(i) == IF i >= 1 /\ textBefore[i] \in WordChars THEN R(i - 1) ELSE i
      k == R(Len(textBefore))
  IN IF /\ k >= 1
        /\ textBefore[k] = "/"
        /\ (k = 1 \/ textBefore[k - 1] \in WhiteSpace)
     THEN << SubSeq(textBefore, k + 1, Len(textBefore)) >>
     ELSE << >>

\* slashCommandCompletion(context): the result in a one-element sequence,
\* or the empty sequence for null.
slashCommandCompletion(d, pos) ==
  LET line == lineAt(d, pos)
      textBefore == sliceDoc(d, LineFrom(d, line), pos)
      m == slashMatch(textBefore)
  IN IF m = << >> THEN << >>
     ELSE LET matchStart == LineFrom(d, line) + lastIndexOf(textBefore, "/")
              query == toLowerCase(m[1])
              Matches(label) == includesString(toLowerCase(label), query)
              filtered == IF query # << >> THEN SelectSeq(slashCommands, Matches)
                          ELSE slashCommands
          IN << [from |-> matchStart, to |-> pos, options |-> filtered] >>

\* The run function of the "/" key binding: what it dispatches, in a
\* one-element sequence, or the empty sequence when it returns false.
slashCommandRun(d, s) ==
  LET from == MainRange(s).from
      to == MainRange(s).to
      textBefore == sliceDoc(d, LineFrom(d, lineAt(d, from)), from)
  IN IF from # to THEN << >>
     ELSE IF textBefore = << >> \/ textBefore[Len(textBefore)] \in WhiteSpace
     THEN << Cmd(from, from, <<"/">>, from + 1, from + 1) >>
     ELSE << >>

\* The completion source is asked for the cursor of the followed document.
Complete ==
  /\ call.fn = "none"
  /\ \E d \in {StringDoc(call.arg.text)} :
       call' = [call EXCEPT !.fn = "slashCommandCompletion",
                            !.result = slashCommandCompletion(d, call.arg.head)]
  /\ UNCHANGED << editorVars, renderVars, dragVars, timers,
                  contentChangeTimeout, lastTimer, posted, bridge, scripts,
                  coordinator >>

\* The "/" key goes to the key binding: whether it handled the key, and
\* the document and selection it leaves.
SlashKey ==
  /\ call.fn = "none"
  /\ \E d \in {StringDoc(call.arg.text)} :
       \E r \in {slashCommandRun(d, [anchor |-> call.arg.anchor,
                                      head |-> call.arg.head])} :
         call' = [call EXCEPT
                    !.fn = "slashCommandKeymap",
                    !.result =
                      IF r = << >>
                      THEN [handled |-> FALSE, text |-> call.arg.text,
                            anchor |-> call.arg.anchor, head |-> call.arg.head]
                      ELSE [handled |-> TRUE,
                            text |-> applyChange(call.arg.text, r[1]),
                            anchor |-> r[1].anchor, head |-> r[1].head]]
  /\ UNCHANGED << editorVars, renderVars, dragVars, timers,
                  contentChangeTimeout, lastTimer, posted, bridge, scripts,
                  coordinator >>

\* The document and selection a followed command acts on: those it started
\* from, or those its last application left.
Current ==
  IF call.result = << >>
  THEN [text |-> call.arg.text, anchor |-> call.arg.anchor, head |-> call.arg.head]
  ELSE call.result[Len(call.result)]

\* One application of the followed command: the command computes its
\* change and selection from the state, dispatch applies them.
Command ==
  /\ Len(call.result) < MaxApplications
  /\ \E cur \in {Current} :
       \* doc.lineAt throws for a cursor outside the document
       /\ ~lineAtThrows([text |-> cur.text], cur.head)
       /\ \E d \in {StringDoc(cur.text)} :
           \E c \in {IF call.arg.cmd = "cycleTodo"
                      THEN cycleTodo(d, [anchor |-> cur.anchor, head |-> cur.head])
                      ELSE wrapSelection(d, [anchor |-> cur.anchor, head |-> cur.head],
                                         WrapPrefix(call.arg.cmd))} :
             \E T2 \in {applyChange(cur.text, c)} :
               /\ ~checkSelectionThrows([anchor |-> c.anchor, head |-> c.head], Len(T2))
               /\ call' = [call EXCEPT
                             !.fn = call.arg.cmd,
                             !.result = Append(@, [text |-> T2, anchor |-> c.anchor,
                                                   head |-> c.head])]
  /\ UNCHANGED << editorVars, renderVars, dragVars, timers,
                  contentChangeTimeout, lastTimer, posted, bridge, scripts,
                  coordinator >>

\* The application writes the bound text, while nothing is on its way
\* between the view and the page.
HostWrites(str) ==
  /\ coordinator.tasks = << >>
  /\ InFlight = 0
  /\ str # coordinator.textBinding
  /\ coordinator' = [coordinator EXCEPT !.textBinding = str, !.origin = "host"]
  /\ UNCHANGED << editorVars, renderVars, dragVars, timers,
                  contentChangeTimeout, lastTimer, posted, bridge, scripts, call >>

\* EditorWebView.updateNSView, which SwiftUI calls after makeNSView and
\* whenever it renders the view again; isUpdatingBinding is false whenever
\* it runs.  A call that finds the bound text known changes nothing.
updateNSView ==
  /\ coordinator.textBinding # coordinator.lastKnownContent
  /\ Len(coordinator.tasks) < MaxScripts
  /\ coordinator' =
       [coordinator EXCEPT
          !.lastKnownContent = coordinator.textBinding,
          !.tasks = Append(@, [kind |-> "update",
                               content |-> coordinator.textBinding,
                               origin |-> coordinator.origin])]
  /\ UNCHANGED << editorVars, renderVars, dragVars, timers,
                  contentChangeTimeout, lastTimer, posted, bridge, scripts, call >>

\* The oldest Task of the Coordinator starts running, after the Task the
\* bridge started before it: await bridge.setContent(...).  A call that
\* returns without awaiting a script lets the Task go on at once.
runTask ==
  /\ coordinator.tasks # << >>
  /\ ~bridge.push
  /\ LET t == Head(coordinator.tasks)
         c1 == [coordinator EXCEPT !.tasks = Tail(@)]
     IN /\ setContentCall(t.content, t.kind)
        /\ coordinator' = IF t.kind = "ready" /\ scripts' = scripts
                          THEN readyTaskReturns(c1) ELSE c1
  /\ UNCHANGED << editorVars, renderVars, dragVars, timers,
                  contentChangeTimeout, lastTimer, posted, call >>

\* What the host does.
HostContent == \E str \in Contents : bridgeSetContent(str)

HostSelection ==
  \E from \in -1..MaxOffset, to \in -1..MaxOffset : bridgeSetSelection(from, to)

\* What the bridge, the web view and the page do in answer.
Bridge ==
  \/ pushCachedContent
  \/ \E i \in 1..MaxScripts : evaluateJavaScript(i)
  \/ evaluateJavaScriptReturns
  \/ handleMessage

\* What the application and SwiftUI do to the view.
View ==
  \/ \E str \in Contents : HostWrites(str)
  \/ updateNSView
  \/ runTask

\* The user types into the page, while few messages are on their way.
Typing == InFlight < MaxScripts /\ Edit

\* The page's debounce timers.
Timers == \E id \in 1..TimerIds : TimerFiresId(id)

(***************************************************************************)
(* Specifications                                                          *)
(***************************************************************************)

\* Headings and fenced code.
CodeMenu == {"txt", "h1", "fjs", "fence"}

Init == InitWith(CodeMenu, MaxMarkLength, FALSE)

Next == Edit \/ Click \/ Reconfigure

Spec == Init /\ [][Next]_vars

\* Inline markers, lists and rules.
MarkMenu == {"txt", "strike", "task", "ol", "hr"}

InitMarks == InitWith(MarkMenu, MaxMarkLength, FALSE)

SpecMarks == InitMarks /\ [][Next]_vars

\* Images and diagrams.
WidgetMenu == {"img", "fmer", "fence"}

InitWidgets == InitWith(WidgetMenu, MaxWidgetLength, TRUE)

SpecWidgets == InitWidgets /\ [][Next]_vars

\* Range selections.
RangeMenu == {"txt", "h1", "link"}

InitRanges == InitWith(RangeMenu, MaxRangeLength, FALSE)

NextRanges == Edit \/ Select \/ Reconfigure

SpecRanges == InitRanges /\ [][NextRanges]_vars

\* Resizing image and diagram widgets.
InitDrag == InitParts(WidgetMenu, MaxDragLength, FALSE, {"dom"})

NextDrag == Edit \/ Click \/ Reconfigure \/ Mouse

SpecDrag == InitDrag /\ [][NextDrag]_vars

\* Rendering diagrams.
RenderMenu == {"fmer", "fence", "txt"}

InitRender == InitParts(RenderMenu, MaxRenderLength, FALSE, {"render"})

NextRender == Edit \/ Render

SpecRender == InitRender /\ [][NextRender]_vars

\* Changing the theme under mounted diagrams.
InitTheme == InitParts(WidgetMenu, MaxDragLength, FALSE, {"render"})

NextTheme == Edit \/ (\E th \in {"light", "dark"} : SetTheme(th)) \/ Render

SpecTheme == InitTheme /\ [][NextTheme]_vars

\* Lists, tasks and emphasis under the formatting commands, in the editor
\* built without decoration fields.
FormatMenu == {"txt", "ul", "ol", "task", "taskx", "em", "fence"}

InitFormat == InitParts(FormatMenu, MaxFormatLength, FALSE, {"plain"})

NextFormat == Edit \/ Click \/ Format

SpecFormat == InitFormat /\ [][NextFormat]_vars

\* Task lists with their checkbox widgets.
TaskMenu == {"txt", "task", "taskx"}

InitTask == InitWith(TaskMenu, MaxMarkLength, FALSE)

NextTask == Edit \/ Click \/ (\E i \in 1..Len(hideSyntax) : ClickCheckbox(i))

SpecTask == InitTask /\ [][NextTask]_vars

\* Plain text whose changes are notified to the host.  A pending timeout
\* fires once its 100 ms have passed.
NotifyMenu == {"txt"}

InitNotify == InitParts(NotifyMenu, MaxNotifyLength, FALSE, {"plain", "notify"})

NextNotify == Edit \/ (\E id \in 1..TimerIds : TimerFiresId(id))

SpecNotify ==
  /\ InitNotify
  /\ [][NextNotify]_vars
  /\ \A id \in 1..TimerIds : WF_vars(TimerFiresId(id))

\* Text and "/" commands with the command palette, in both versions of
\* handleUpdate.
PaletteMenu == {"txt", "slash", "cmd"}

InitPalette ==
  \E parts \in {{"plain", "palette"}, {"plain", "palette", "cursor"}} :
    InitParts(PaletteMenu, MaxPaletteLength, TRUE, parts)

NextPalette ==
  Edit \/ Click \/ TypeSlash \/ (\E from \in showTimers : ShowFires(from))

SpecPalette == InitPalette /\ [][NextPalette]_vars

\* The palette with its keys and its items, in both versions: lines of text,
\* "/" commands and dividers.
KeysMenu == {"slash", "cmd", "hr"}

InitKeys ==
  \E parts \in {{"plain", "palette"}, {"plain", "palette", "cursor"}} :
    InitParts(KeysMenu, MaxKeysLength, FALSE, parts)

\* One "/" key within the delay of show().
KeySlash == showTimers = {} /\ TypeSlash

NextKeys ==
  \/ Edit
  \/ Click
  \/ KeySlash
  \/ \E from \in showTimers : ShowFires(from)
  \/ PaletteKeys

SpecKeys == InitKeys /\ [][NextKeys]_vars

\* The widgets' resize handles and the diagrams' renders together.
EventsMenu == {"img", "fmer", "fence"}

InitEvents == InitParts(EventsMenu, MaxDragLength, FALSE, {"dom", "render"})

NextEvents == Edit \/ Mouse \/ Render

SpecEvents == InitEvents /\ [][NextEvents]_vars

\* Fences and rules under range selections.
BlockMenu == {"txt", "fjs", "fence", "hr"}

InitBlocks == InitWith(BlockMenu, MaxMarkLength, FALSE)

SpecBlocks == InitBlocks /\ [][NextRanges]_vars

\* ATX and Setext headings.
HeadingMenu == {"txt", "h1", "h3", "hr"}

InitHeading == InitWith(HeadingMenu, MaxMarkLength, FALSE)

SpecHeading == InitHeading /\ [][Next]_vars

\* The host and the page.
BridgeMenu == {"txt"}

ReadyMenu == {"txt", "cmd"}

InitBridge == InitParts(BridgeMenu, maxLength, FALSE, {"plain", "notify", "bridge"})

NextBridge == HostContent \/ Bridge \/ Timers

SpecBridge == InitBridge /\ [][NextBridge]_vars

\* The view with its binding, the bridge, the page and a user who types.
InitBinding ==
  InitParts(BridgeMenu, maxLength, FALSE,
            {"plain", "notify", "bridge", "binding", "serial"})

NextBinding == View \/ Bridge \/ Timers \/ Typing

SpecBinding == InitBinding /\ [][NextBinding]_vars

\* The host sets content and selections.
InitSelect == InitParts(BridgeMenu, maxLength, TRUE, {"plain", "bridge", "serial"})

NextSelect == HostContent \/ HostSelection \/ Bridge

SpecSelect == InitSelect /\ [][NextSelect]_vars

\* The host sets content, over-long content too, before and after the
\* bridge is ready.
InitContent == InitParts(ReadyMenu, maxLength, TRUE, {"plain", "bridge", "serial"})

NextContent == HostContent \/ Bridge

SpecContent == InitContent /\ [][NextContent]_vars

\* Strings are escaped.
InitEscape == InitParts({}, 0, FALSE, {"plain", "escape"})

SpecEscape == InitEscape /\ [][Escape]_vars

\* The wrap toggles on their own.
InitWrap == InitParts({}, 0, FALSE, {"plain", "wrap"})

SpecWrap == InitWrap /\ [][Command]_vars

\* The slash completion source and the "/" key binding on their own.
InitSlash == InitParts({}, 0, FALSE, {"plain", "slash"})

NextSlash == Complete \/ SlashKey

SpecSlash == InitSlash /\ [][NextSlash]_vars

\* cycleTodo on its own.
InitTodo == InitParts({}, 0, FALSE, {"plain", "todo"})

SpecTodo == InitTodo /\ [][Command]_vars

\* The host sets content only until the bridge is ready.  The main actor
\* runs every task queued on it, the web view evaluates every script it is
\* sent and reports back, and the page's timers fire.
InitReady ==
  InitParts(ReadyMenu, maxLength, TRUE, {"plain", "notify", "bridge", "boot"})

SpecReady ==
  /\ InitReady
  /\ [][NextBridge]_vars
  /\ WF_vars(pushCachedContent)
  /\ WF_vars(\E i \in 1..MaxScripts : evaluateJavaScript(i))
  /\ WF_vars(evaluateJavaScriptReturns)
  /\ WF_vars(handleMessage)
  /\ \A id \in 1..TimerIds : WF_vars(TimerFiresId(id))

(***************************************************************************)
(* Properties                                                              *)
(***************************************************************************)

\* A decoration that hides its range: the replace of syntaxHiding.ts, the
\* hidden marks of syntax_hiding.ts and styling.ts.
IsHide(x) ==
  \/ x.kind = "replace"
  \/ x.kind = "mark" /\ x.arg \in {<<"cm-syntax-hidden">>, <<"cm-formatting-hidden">>}

\* A decoration that replaces its range by a widget.
IsWidgetReplace(x) ==
  x.kind \in {"LanguageBadge", "CheckboxWidget", "HorizontalRuleWidget",
              "BulletWidget", "DividerWidget"}

SortedByFromTo(decos) ==
  \A i \in 1..(Len(decos) - 1) :
     \/ decos[i].from < decos[i + 1].from
     \/ decos[i].from = decos[i + 1].from /\ decos[i].to <= decos[i + 1].to

NoOverlap(decos) ==
  \A i, j \in 1..Len(decos) :
     (i < j /\ (IsHide(decos[i]) \/ IsWidgetReplace(decos[i]))
            /\ (IsHide(decos[j]) \/ IsWidgetReplace(decos[j])))
       => (decos[i].to <= decos[j].from \/ decos[j].to <= decos[i].from)

\* C1: after any sequence of edits and selection changes, the sequence each
\* syntax-hiding field holds is sorted ascending by (from, to) and no two of
\* its hide or replace decorations overlap.
C1_SortedNoOverlap ==
  /\ SortedByFromTo(hideSyntax) /\ NoOverlap(hideSyntax)
  /\ SortedByFromTo(syntaxHiding) /\ NoOverlap(syntaxHiding)

\* A rebuilt set with the line classes of a fenced block of several lines
\* followed by two hidden marks, while the other field hides a mark too.
C1_Witness ==
  /\ rebuilt
  /\ \E i, j, k \in 1..Len(hideSyntax) :
        /\ hideSyntax[i].kind = "line" /\ hideSyntax[i].from > 0
        /\ hideSyntax[i].arg[1] = "cm-codeblock-line"
        /\ i < j /\ j < k
        /\ IsHide(hideSyntax[j]) \/ IsWidgetReplace(hideSyntax[j])
        /\ IsHide(hideSyntax[k]) \/ IsWidgetReplace(hideSyntax[k])
  /\ Len(syntaxHiding) > 0

\* The active lines as the specification defines them: every line a
\* selection range overlaps, its boundary lines included.
ActiveLineSet ==
  {i \in 1..NumLines(doc) :
     \E r \in 1..Len(Ranges(sel)) :
        Ranges(sel)[r].from <= LineTo(doc, i) /\ Ranges(sel)[r].to >= LineFrom(doc, i)}

\* A cursor (the head of a selection range) is on line i.
CursorOnLine(i) ==
  \E r \in 1..Len(Ranges(sel)) :
     LineFrom(doc, i) <= Ranges(sel)[r].head /\ Ranges(sel)[r].head <= LineTo(doc, i)

NodesNamed(names) == {k \in 1..Len(tree) : tree[k].name \in names}

HideAt(decos, n) ==
  \E x \in 1..Len(decos) :
     IsHide(decos[x]) /\ decos[x].from = n.from /\ decos[x].to = n.to

NoHideOnLine(decos, i) ==
  \A x \in 1..Len(decos) :
     IsHide(decos[x]) =>
       ~(LineFrom(doc, i) <= decos[x].from /\ decos[x].to <= LineTo(doc, i))

\* C2: after every rebuild, a heading marker on a line that is not active
\* is covered exactly by a hide decoration, and a line with a cursor
\* anywhere on it has no hide decoration on any of its markers.
C2_HeaderMarkExemption ==
  rebuilt =>
    \A k \in NodesNamed({"HeaderMark"}) :
       LET line == lineAt(doc, tree[k].from)
       IN /\ line \notin ActiveLineSet =>
               HideAt(hideSyntax, tree[k]) /\ HideAt(syntaxHiding, tree[k])
          /\ CursorOnLine(line) =>
               NoHideOnLine(hideSyntax, line) /\ NoHideOnLine(syntaxHiding, line)

\* C3: a task marker is decorated as a checkbox for every cursor position,
\* the marker's own line included.
C3_CheckboxAlways ==
  \A k \in NodesNamed({"TaskMarker"}) :
     /\ rebuilt =>
          \E x \in 1..Len(hideSyntax) :
             /\ hideSyntax[x].kind = "CheckboxWidget"
             /\ hideSyntax[x].from = tree[k].from /\ hideSyntax[x].to = tree[k].to
     /\ \E x \in 1..Len(hideMarks) :
           /\ hideMarks[x] = checkboxMarkClass(tree[k].from, tree[k].to)

\* A decoration of the sequence that hides or replaces text of [from, to).
HiddenOrReplaced(decos, from, to) ==
  \E x \in 1..Len(decos) :
     /\ IsHide(decos[x]) \/ IsWidgetReplace(decos[x])
     /\ decos[x].from < to /\ from < decos[x].to

\* C4: a numeric list marker (digits and "." or ")") never receives a hide
\* or a replace decoration, wherever the cursor is.
C4_NumericMarkerKept ==
  \A k \in NodesNamed({"ListMark"}) :
     isNumberMark(sliceDoc(doc, tree[k].from, tree[k].to)) =>
       /\ ~HiddenOrReplaced(hideSyntax, tree[k].from, tree[k].to)
       /\ ~HiddenOrReplaced(hideMarks, tree[k].from, tree[k].to)

\* The offset at which the block of a mounted instance begins: the widget
\* sits at the end of the text it was built from.
MermaidBlockStart(w) == w.pos - (Len(MermaidOpen) + Len(w.widget.code) + 3)

ImageBlockStart(w) == w.pos - (Len(w.widget.alt) + Len(w.widget.url) + 5)

\* The step is an edit that lies before offset start and moves the text
\* from there on by delta; decos is the new decoration set, in which the
\* block of instance w is found again, its source unchanged, at its new
\* offset.
ShiftedUnchanged(w, start, delta, decos) ==
  /\ tr'.kind = "edit"
  /\ tr'.changes.to <= start
  /\ delta # 0
  /\ \E x \in 1..Len(decos) :
        decos[x].from = w.pos + delta /\ decos[x].arg = w.widget

\* The instance w is mounted in dom at its shifted offset: it was neither
\* destroyed nor created again.
Reused(w, delta, dom) ==
  \E j \in 1..Len(dom) :
     dom[j].id = w.id /\ dom[j].pos = w.pos + delta /\ dom[j].widget = w.widget

\* C5: when an edit earlier in the document shifts a diagram or an image
\* block whose source is unchanged, the block keeps its widget instance.
C5_WidgetReuse ==
  [][LET delta == tr'.changes.ins - (tr'.changes.to - tr'.changes.from)
     IN /\ \A i \in 1..Len(mermaidDom) :
             ShiftedUnchanged(mermaidDom[i], MermaidBlockStart(mermaidDom[i]),
                              delta, mermaidDecos')
               => Reused(mermaidDom[i], delta, mermaidDom')
        /\ \A i \in 1..Len(imageDom) :
             ShiftedUnchanged(imageDom[i], ImageBlockStart(imageDom[i]),
                              delta, imageDecos')
               => Reused(imageDom[i], delta, imageDom')]_vars

\* After an edit a diagram instance is mounted at another offset than the
\* one it was created at.
C5_Witness ==
  /\ tr.kind = "edit"
  /\ \E i \in 1..Len(mermaidDom) : mermaidDom[i].moved

\* C6: a transaction that sets only the selection leaves the image and the
\* diagram decoration sets as they were, and creates or destroys no widget
\* instance.
C6_SelectionKeepsWidgets ==
  [][tr'.kind = "select" =>
       /\ doc' = doc
       /\ imageDecos' = imageDecos /\ mermaidDecos' = mermaidDecos
       /\ imageDom' = imageDom /\ mermaidDom' = mermaidDom]_vars

\* The cursor has been moved off the first line while an image instance
\* stays mounted.
C6_Witness ==
  /\ tr.kind = "select"
  /\ sel.head > 0
  /\ Len(imageDom) > 0

\* The marker nodes of the listed categories: emphasis and strong emphasis,
\* strikethrough, heading hashes, blockquote markers, link and image
\* brackets.
FormattingMarks ==
  {"EmphasisMark", "StrongEmphasisMark", "StrikethroughMark", "HeaderMark",
   "QuoteMark", "LinkMark", "ImageMark"}

\* No decoration other than a line class touches [from, to).
Undecorated(decos, from, to) ==
  \A x \in 1..Len(decos) :
     decos[x].kind # "line" => ~(decos[x].from < to /\ from < decos[x].to)

\* C8: every formatting marker of the listed categories is hidden when its
\* line is not active and carries no decoration when its line is active.
C8_FormattingMarkers ==
  rebuilt =>
    \A k \in NodesNamed(FormattingMarks) :
       IF lineAt(doc, tree[k].from) \notin ActiveLineSet
       THEN HideAt(hideSyntax, tree[k]) /\ HideAt(syntaxHiding, tree[k])
       ELSE /\ Undecorated(hideSyntax, tree[k].from, tree[k].to)
            /\ Undecorated(syntaxHiding, tree[k].from, tree[k].to)

\* C9: the lines treated as active are exactly the lines overlapped by some
\* selection range, main or secondary; a caret contributes its own line.
C9_ActiveLines ==
  /\ {cursorLine(State)} = ActiveLineSet
  /\ {i \in 1..NumLines(doc) :
        isLineActive(State, LineFrom(doc, i), LineTo(doc, i))} = ActiveLineSet

\* The code-block line classes of line i in the field.
CodeBlockClasses(i) ==
  {x \in 1..Len(hideSyntax) :
     /\ hideSyntax[x].kind = "line"
     /\ hideSyntax[x].from = LineFrom(doc, i)
     /\ hideSyntax[x].arg[1] = "cm-codeblock-line"}

C11_DragListeners ==
  \A l \in listeners :
    /\ drag.on
    /\ l.owner = drag.owner
    /\ l.owner \in Mounted

\* A drag is still in progress (no mouseup yet) on a diagram whose instance
\* has been destroyed by an edit, and nothing is registered any more.
C11_Witness ==
  /\ drag.on
  /\ drag.owner[1] = "mermaid"
  /\ drag.owner \notin Mounted
  /\ listeners = {}

\* C12: a render that settles after its widget was destroyed writes nothing:
\* every write of a render continuation goes to a mounted container.
C12_DestroyedRenderNoOp ==
  lastRender # "detached"

\* The number of leading lines that two documents share.
CommonLines(ks, ks2) ==
  LET n == Min2(Len(ks), Len(ks2))
      D == {j \in 1..n : ks[j] # ks2[j]}
  IN IF D = {} THEN n ELSE MinOf(D) - 1

\* The step is an edit of one line that lies above the block of the diagram
\* instance w, whichever line it was: a line typed at or above the block's
\* first line, or a line deleted or replaced above it.
EditAbove(w) ==
  LET first == lineAt(doc, MermaidBlockStart(w))
      p     == CommonLines(doc.kinds, doc'.kinds)
  IN /\ doc' # doc
     /\ IF NumLines(doc') > NumLines(doc) THEN p < first ELSE p + 1 < first

\* The diagram instance o is mounted before and after the step.
Stays(o) == o \in DOMAIN content /\ o \in DOMAIN content'

\* The renders that the step starts.
Started == {r \in renders' : r.attached /\ r \notin renders}

C14_RebuildFollowsDocument ==
  [][doc' # doc =>
       /\ tree' = parseMarkdown(doc')
       /\ hideSyntax' = hideSyntaxBuild(EditorState(doc', tree', sel'))
       /\ syntaxHiding' = buildHidingDecorations(EditorState(doc', tree', sel'))
       /\ imageDecos' = buildImageDecorations(DocText(doc'))
       /\ mermaidDecos' = buildMermaidDecorations(DocText(doc'))]_vars

\* Several versions of the document have been committed: an image instance
\* has been carried to another offset by a later edit, and the committed
\* sets are not empty.
C14_Witness ==
  /\ \E i \in 1..Len(imageDom) : imageDom[i].moved
  /\ Len(imageDecos) > 0
  /\ Len(hideSyntax) > 0


\* C15: after a formatting command (toggleList, toggleOrderedList,
\* cycleTodo, the wrapSelection toggles, insertAtLineStart, insertCodeBlock)
\* or a setSelection call, both ends of the selection lie between 0 and the
\* length of the document.
C15_SelectionInDocument ==
  /\ 0 <= sel.anchor /\ sel.anchor <= DocLength(doc)
  /\ 0 <= sel.head /\ sel.head <= DocLength(doc)

\* The document with the task marker of line i flipped between "[ ]" and
\* "[x]".
Flipped(d, i) ==
  Text([d.kinds EXCEPT ![i] = IF d.kinds[i] = "task" THEN "taskx" ELSE "task"])

\* C17: a click on a rendered checkbox widget dispatches a change that flips
\* the task marker of its line between "[ ]" and "[x]" and changes nothing
\* else in the document.
C17_CheckboxClickFlips ==
  [][clicks' # clicks =>
       \E i \in 1..NumLines(doc) :
         /\ doc.kinds[i] \in {"task", "taskx"}
         /\ doc' = Flipped(doc, i)]_vars

\* C18: when the theme changes while a diagram widget is mounted, the
\* mounted instance stays (it is not destroyed and recreated) and is
\* rendered again with the new theme.
C18_ThemeChangeRerenders ==
  [][theme' # theme =>
       \A o \in Owners("mermaid", Ids(mermaidDom)) :
         /\ o \in Owners("mermaid", Ids(mermaidDom'))
         /\ \E r \in renders' :
              r.owner = o /\ r.theme = theme' /\ r.attached]_vars

\* The timeout with handle id is pending.
Pending(id) == \E t \in timers : t.id = id

\* C19: content-change notifications are debounced.  At most one timeout is
\* pending at any time; a document change leaves exactly the timeout that
\* carries the new text, so the changes of a burst share one message; a
\* message is posted with the text of the document as of the last change
\* and leaves no timeout behind; and every pending timeout is eventually
\* replaced by a later change or fires, so that a message is posted once
\* the changes stop.
C19_Debounce ==
  /\ [](Cardinality(timers) <= 1)
  /\ [][/\ doc' # doc =>
             timers' = {[id |-> contentChangeTimeout', content |-> DocText(doc')]}
        /\ posted' # posted =>
             /\ posted'.content = DocText(doc)
             /\ doc' = doc
             /\ timers' = {}]_vars
  /\ \A id \in 1..TimerIds : Pending(id) ~> ~Pending(id)

\* Two changes in a burst and one message, carrying the text after the
\* second.
C19_Witness ==
  /\ lastTimer = 2
  /\ posted.n = 1
  /\ posted.content = DocText(doc)
  /\ timers = {}
  /\ contentChangeTimeout = NoTimer

\* C20: while the command palette is active, a document change after which
\* the character at the trigger position, mapped through the change, is
\* not "/" makes the palette inactive and hidden.
C20_PaletteAutoDismiss ==
  [][/\ palette.active
     /\ doc' # doc
     /\ CharAt(DocText(doc'), mapPos(tr'.changes, palette.triggerPos, -1)) # "/"
     => /\ ~palette'.active
        /\ palette'.display = "none"]_vars

\* The palette was shown for a "/" after the start of the document and a
\* change has removed that "/": the palette is hidden.
C20_Witness ==
  /\ palette.triggerPos > 0
  /\ tr.kind = "edit"
  /\ CharAt(DocText(doc), palette.triggerPos) # "/"
  /\ ~palette.active
  /\ palette.display = "none"


\* C21: isUpdatingFromSwift prevents feedback loops: a setContent call of
\* the host never results in an editorDidChangeContent callback that reports
\* that content back, however the completion of the script evaluation and
\* the debounced contentChanged message interleave.  Under SpecBridge every
\* change of the document is made by a setContent of the host, so the
\* delegate is never called.
C21_NoFeedback == bridge.delegate = EditorBridge.delegate

\* C22: the bridge is not ready at first and becomes ready only by handling
\* a 'ready' message; while it is not ready a setContent sends no script and
\* caches its content; and the content cached when the bridge becomes ready
\* (pushed by the 'ready' handler when it is not empty) is what the editor
\* eventually shows.
C22_ReadyPushesCache ==
  /\ ~bridge.isReady
  /\ [][/\ bridge.isReady' # bridge.isReady
           => /\ bridge.inbox # << >>
              /\ Head(bridge.inbox) = Ready
              /\ bridge.isReady'
        /\ ~bridge.isReady => scripts' = << >>
        /\ (~bridge.isReady /\ bridge.inbox' = bridge.inbox
              /\ validateInput(bridge.api.args', maxLength) = NoError)
           => bridge.cachedContent' = bridge.api.args']_vars
  /\ \A c \in ContentsOf(ReadyMenu) :
       (bridge.isReady /\ bridge.cachedContent = c) ~> (DocText(doc) = c)

\* Content set before readiness has been pushed and is shown.
C22_Witness ==
  /\ bridge.isReady
  /\ bridge.api.fn = "setContent"
  /\ bridge.cachedContent # << >>
  /\ bridge.cachedContent = bridge.api.args
  /\ DocText(doc) = bridge.cachedContent
  /\ scripts = << >>

\* C23: validateSelection(from, to) succeeds exactly when 0 <= from <= to;
\* otherwise it throws invalidInput naming 'from' when from < 0, else 'to'
\* when to < 0, else 'from/to' when from > to; and a setSelection of the
\* ready bridge whose validation fails sends no script, while one whose
\* validation succeeds sends window.editorAPI.setSelection(from, to).
C23_ValidateSelection ==
  [][(bridge.api' # bridge.api /\ bridge.api.fn' = "setSelection" /\ bridge.isReady)
     => LET from == bridge.api.args'[1]
            to   == bridge.api.args'[2]
        IN /\ (validateSelection(from, to) = NoError) <=> (0 <= from /\ from <= to)
           /\ (0 <= from /\ from <= to)
                => /\ scripts' = Append(scripts, Script("setSelection", << from, to >>,
                                                       << >>, "host"))
                   /\ bridge.thrown' = bridge.thrown
           /\ ~(0 <= from /\ from <= to)
                => /\ scripts' = scripts
                   /\ bridge.thrown' = invalidInput(IF from < 0 THEN "from"
                                                    ELSE IF to < 0 THEN "to"
                                                    ELSE "from/to")]_vars

\* A setSelection of the ready bridge with from > to has thrown.
C23_Witness ==
  /\ bridge.isReady
  /\ bridge.api.fn = "setSelection"
  /\ bridge.api.args[1] > bridge.api.args[2]
  /\ bridge.api.args[2] >= 0
  /\ bridge.thrown = invalidInput("from/to")

\* C24: validateInput accepts a text exactly when its length is at most
\* maxLength and throws invalidInput('text') otherwise; setContent validates
\* before it looks at readiness, so over-long content throws and leaves the
\* cached content, the scripts sent and the editor's document as they were,
\* ready or not; accepted content is cached unchanged while the bridge is
\* not ready and sent unchanged once it is.
C24_ValidateInput ==
  [][(bridge.api' # bridge.api /\ bridge.api.fn' = "setContent")
     => LET c == bridge.api.args'
        IN /\ (validateInput(c, maxLength) = NoError) <=> (Len(c) <= maxLength)
           /\ Len(c) > maxLength
                => /\ bridge.thrown' = invalidInput("text")
                   /\ bridge.cachedContent' = bridge.cachedContent
                   /\ scripts' = scripts
                   /\ doc' = doc
           /\ (Len(c) <= maxLength /\ ~bridge.isReady)
                => /\ bridge.cachedContent' = c
                   /\ scripts' = scripts
           /\ (Len(c) <= maxLength /\ bridge.isReady)
                => scripts' = Append(scripts, Script("setContent", toJavaScript(c),
                                                     c, "host"))]_vars

\* The ready bridge, with content cached and shown, has refused over-long
\* content.
C24_Witness ==
  /\ bridge.isReady
  /\ bridge.api.fn = "setContent"
  /\ Len(bridge.api.args) > maxLength
  /\ bridge.thrown = invalidInput("text")
  /\ bridge.cachedContent # << >>
  /\ DocText(doc) = bridge.cachedContent

\* The escape of one character.
EscapeOf(c) ==
  CASE c = BACKSLASH -> << BACKSLASH, BACKSLASH >>
    [] c = QUOTE     -> << BACKSLASH, QUOTE >>
    [] c = NL        -> << BACKSLASH, "n" >>
    [] c = CR        -> << BACKSLASH, "r" >>
    [] c = TAB       -> << BACKSLASH, "t" >>
    [] c = LS        -> << BACKSLASH, "u", "2", "0", "2", "8" >>
    [] c = PS        -> << BACKSLASH, "u", "2", "0", "2", "9" >>
    [] OTHER         -> << c >>

\* The escapes of the characters of s, one after the other.
EscapeEach(s) ==
  LET RECURSIVE E(_)
      E(i) == IF i = 0 THEN << >> ELSE E(i - 1) \o EscapeOf(s[i])
  IN E(Len(s))

\* The number of backslashes that end at index i of s.
BackslashesBefore(s, i) ==
  LET RECURSIVE B(_)
      B(j) == IF j >= 1 /\ s[j] = BACKSLASH THEN 1 + B(j - 1) ELSE 0
  IN B(i)

\* C25: escapeJavaScriptString replaces every backslash, double quote,
\* newline, carriage return, tab, U+2028 and U+2029 by its escape and leaves
\* every other character as it is; its output holds no raw line terminator
\* and no double quote that is not escaped; and read as the body of a
\* JavaScript double-quoted string literal the output yields the input.
C25_EscapeRoundTrip ==
  call.fn = "escapeJavaScriptString"
    => /\ call.result = EscapeEach(call.arg)
       /\ \A i \in 1..Len(call.result) :
            /\ call.result[i] \notin {NL, CR, LS, PS}
            /\ call.result[i] = QUOTE
                 => BackslashesBefore(call.result, i - 1) % 2 = 1
       /\ StringValue(call.result) = [ok |-> TRUE, value |-> call.arg]

\* A string of a backslash, a double quote and a newline has been escaped.
C25_Witness ==
  /\ call.fn = "escapeJavaScriptString"
  /\ call.arg = << BACKSLASH, QUOTE, NL >>
  /\ Len(call.result) = 6

HeadingNames ==
  {"ATXHeading1", "ATXHeading2", "ATXHeading3", "ATXHeading4", "ATXHeading5",
   "ATXHeading6", "SetextHeading1", "SetextHeading2"}

\* The level the name of a heading node ends with.
LevelOf(name) ==
  CHOOSE l \in 1..6 :
    \/ name \in {"ATXHeading1", "SetextHeading1"} /\ l = 1
    \/ name \in {"ATXHeading2", "SetextHeading2"} /\ l = 2
    \/ name = "ATXHeading3" /\ l = 3
    \/ name = "ATXHeading4" /\ l = 4
    \/ name = "ATXHeading5" /\ l = 5
    \/ name = "ATXHeading6" /\ l = 6

\* The heading line classes of line i in the field.
HeadingClasses(i) ==
  {x \in 1..Len(hideSyntax) :
     /\ hideSyntax[x].kind = "line"
     /\ hideSyntax[x].from = LineFrom(doc, i)
     /\ hideSyntax[x].arg[1] # "cm-codeblock-line"}

WidgetAt(decos, kind, n) ==
  \E x \in 1..Len(decos) :
     decos[x].kind = kind /\ decos[x].from = n.from /\ decos[x].to = n.to

\* C27: a fence boundary marker whose line is not active is replaced by a
\* LanguageBadge widget when the fence line carries a language tag and is
\* hidden when it carries none; a marker whose line is active gets no
\* decoration.
C27_FenceMarker ==
  rebuilt =>
    \A k \in NodesNamed({"CodeMark"}) :
       tree[k].parent = "FencedCode" =>
         LET line == lineAt(doc, tree[k].from)
         IN IF line \in ActiveLineSet
            THEN Undecorated(hideSyntax, tree[k].from, tree[k].to)
            ELSE IF doc.kinds[line] \in FenceInfoKinds
            THEN WidgetAt(hideSyntax, "LanguageBadge", tree[k])
            ELSE HideAt(hideSyntax, tree[k])

\* C28: a horizontal rule is replaced by a divider widget exactly when its
\* line is not active; on an active line it gets no decoration.
C28_DividerWhenInactive ==
  \A k \in NodesNamed({"HorizontalRule"}) :
     LET active == lineAt(doc, tree[k].from) \in ActiveLineSet
     IN /\ rebuilt =>
             /\ WidgetAt(hideSyntax, "HorizontalRuleWidget", tree[k]) <=> ~active
             /\ active => Undecorated(hideSyntax, tree[k].from, tree[k].to)
        /\ WidgetAt(syntaxHiding, "DividerWidget", tree[k]) <=> ~active
        /\ active => Undecorated(syntaxHiding, tree[k].from, tree[k].to)

\* The fenced code nodes opened by a ```mermaid line and closed by a fence.
ClosedMermaidFences ==
  {k \in NodesNamed({"FencedCode"}) :
     /\ doc.kinds[lineAt(doc, tree[k].from)] = "fmer"
     /\ \E j \in NodesNamed({"CodeMark"}) :
           /\ tree[j].parent = "FencedCode"
           /\ tree[j].from > tree[k].from
           /\ tree[j].to = tree[k].to}

\* The lines that are a match of ![alt](url).
ImageLines == {i \in 1..NumLines(doc) : doc.kinds[i] \in {"img", "img2"}}

\* C29: whatever the selection, the image field holds exactly one block
\* widget per match of ![alt](url), anchored right after the match, and the
\* diagram field holds exactly one block widget per closed ```mermaid fence,
\* anchored right after the closing fence; a mermaid fence that is not
\* closed yields none.
C29_WidgetPerBlock ==
  /\ Len(imageDecos) = Cardinality(ImageLines)
  /\ {imageDecos[x].from : x \in 1..Len(imageDecos)}
       = {LineTo(doc, i) : i \in ImageLines}
  /\ \A x \in 1..Len(imageDecos) :
       imageDecos[x].kind = "ImageWidget" /\ imageDecos[x].to = imageDecos[x].from
  /\ Len(mermaidDecos) = Cardinality(ClosedMermaidFences)
  /\ {mermaidDecos[x].from : x \in 1..Len(mermaidDecos)}
       = {tree[k].to : k \in ClosedMermaidFences}
  /\ \A x \in 1..Len(mermaidDecos) :
       mermaidDecos[x].kind = "MermaidWidget" /\ mermaidDecos[x].to = mermaidDecos[x].from

\* C30: the widgets' interactions and rendering leave the document text and
\* the selection as they were: a step that starts or ends a drag of a resize
\* handle, that sets a style on a container (mousedown, mousemove), or that
\* settles a pending render (written or failed) changes neither.
C30_WidgetEventsFrame ==
  [][(\/ drag' # drag
      \/ style' \ style # {}
      \/ \E r \in renders :
            r \notin renders' /\ [r EXCEPT !.attached = FALSE] \notin renders')
     => (DocText(doc)' = DocText(doc) /\ sel' = sel)]_vars

\* A diagram has been drawn and its container resized, with a drag of its
\* handle still in progress.
C30_Witness ==
  /\ drag.on
  /\ [owner |-> drag.owner, prop |-> "width"] \in style
  /\ drag.owner \in DOMAIN content
  /\ content[drag.owner].html = "svg"
  /\ lastRender = "mounted"

\* The document and selection before the i-th application of the followed
\* command.
Before(i) ==
  IF i = 1
  THEN [text |-> call.arg.text, anchor |-> call.arg.anchor, head |-> call.arg.head]
  ELSE call.result[i - 1]

\* The selection of x is immediately preceded and immediately followed by
\* the marker p.
Wrapped(x, p) ==
  LET from == Min2(x.anchor, x.head)
      to == Max2(x.anchor, x.head)
  IN /\ from >= Len(p)
     /\ to + Len(p) <= Len(x.text)
     /\ \A j \in 1..Len(p) : /\ x.text[from - Len(p) + j] = p[j]
                             /\ x.text[to + j] = p[j]

\* C34: a wrap toggle (bold, italic, code, strikethrough) applied to a
\* selection that is immediately preceded by the marker and immediately
\* followed by it removes both markers and selects the inner text;
\* otherwise it inserts the markers around the selection and selects the
\* inner text.
C34_WrapToggle ==
  call.fn \in WrapCommands =>
    \A i \in 1..Len(call.result) :
      LET x == Before(i)
          y == call.result[i]
          p == WrapPrefix(call.fn)
          n == Len(p)
          from == Min2(x.anchor, x.head)
          to == Max2(x.anchor, x.head)
          inner == SubSeq(x.text, from + 1, to)
      IN /\ SubSeq(y.text, y.anchor + 1, y.head) = inner
         /\ IF Wrapped(x, p)
            THEN /\ y.text = SubSeq(x.text, 1, from - n) \o inner
                               \o SubSeq(x.text, to + n + 1, Len(x.text))
                 /\ y.anchor = from - n
                 /\ y.head = to - n
            ELSE /\ y.text = SubSeq(x.text, 1, from) \o p \o inner \o p
                               \o SubSeq(x.text, to + 1, Len(x.text))
                 /\ y.anchor = from + n
                 /\ y.head = to + n

\* The bold toggle has unwrapped the letter of "**a**", selected backwards,
\* and then wrapped it again.
C34_Witness ==
  /\ call.fn = "toggleBold"
  /\ Len(call.result) = 2
  /\ call.arg.text = <<"*", "*", "a", "*", "*">>
  /\ call.arg.anchor = 3
  /\ call.arg.head = 2
  /\ call.result[1] = [text |-> <<"a">>, anchor |-> 0, head |-> 1]
  /\ call.result[2] = [text |-> call.arg.text, anchor |-> 2, head |-> 3]

\* A line carries a list marker or a task marker: after blanks, one of
\* - * + and a blank, or - and a box [ ], [x] or [X].
HasListPrefix(t) ==
  \E a \in 0..Len(t) :
    /\ \A j \in 1..a : t[j] \in WhiteSpace
    /\ a + 2 <= Len(t)
    /\ t[a + 1] \in {"-", "*", "+"}
    /\ t[a + 2] \in WhiteSpace

HasTaskPrefix(t) ==
  \E a \in 0..Len(t), b \in 0..Len(t) :
    /\ a + b + 4 <= Len(t)
    /\ \A j \in 1..a : t[j] \in WhiteSpace
    /\ t[a + 1] = "-"
    /\ \A j \in 1..b : t[a + 1 + j] \in WhiteSpace
    /\ t[a + b + 2] = "["
    /\ t[a + b + 3] \in {" ", "x", "X"}
    /\ t[a + b + 4] = "]"

\* The text of the line of x that holds its cursor.
HeadLine(x) ==
  LET d == StringDoc(x.text)
  IN LineTextOf(d, lineAt(d, x.head))

\* C35: cycleTodo takes a line with no list or task prefix through
\* Text -> "- [ ] " + Text -> "- [x] " + Text -> Text: three successive
\* applications restore the line, and the document.
C35_CycleTodo ==
  (call.fn = "cycleTodo" /\ ~HasListPrefix(HeadLine(Before(1)))
                         /\ ~HasTaskPrefix(HeadLine(Before(1)))) =>
    LET t == HeadLine(Before(1))
        n == Len(call.result)
    IN /\ n >= 1 => HeadLine(call.result[1]) = TodoPrefix \o t
       /\ n >= 2 => HeadLine(call.result[2]) = DonePrefix \o t
       /\ n >= 3 => /\ HeadLine(call.result[3]) = t
                    /\ call.result[3].text = call.arg.text
                    /\ call.result[3].head = call.arg.head

\* Three applications on the second line of a document, a line that
\* starts with a blank.
C35_Witness ==
  /\ call.fn = "cycleTodo"
  /\ Len(call.result) = 3
  /\ call.arg.text = <<"-", NL, " ">>
  /\ call.arg.head = 3
  /\ call.result[2].text = <<"-", NL>> \o DonePrefix \o <<" ">>
  /\ call.result[3].text = call.arg.text

\* C39: applying the same wrap toggle twice in succession restores the
\* document text and the selection it started from.
C39_WrapTwice ==
  (call.fn \in WrapCommands /\ Len(call.result) >= 2) =>
    /\ call.result[2].text = call.arg.text
    /\ call.result[2].anchor = call.arg.anchor
    /\ call.result[2].head = call.arg.head

\* The text from the start of the line of pos up to pos.
LineBefore(T, pos) ==
  LET Starts == {0} \cup {i \in 1..pos : T[i] = NL}
      ls == CHOOSE i \in Starts : \A j \in Starts : j <= i
  IN [from |-> ls, text |-> SubSeq(T, ls + 1, pos)]

\* The offsets in t of a "/" that starts the line or follows a blank and
\* that only word characters follow.
SlashContexts(t) ==
  {k \in 1..Len(t) : /\ t[k] = "/"
                      /\ (k = 1 \/ t[k - 1] \in WhiteSpace)
                      /\ \A j \in (k + 1)..Len(t) : t[j] \in WordChars}

\* The label contains the query, whatever the case of their letters.
ContainsNoCase(label, q) ==
  \E i \in 0..(Len(label) - Len(q)) :
    \A j \in 1..Len(q) : toLowerCase(<<label[i + j]>>) = toLowerCase(<<q[j]>>)

\* C33: slashCommandCompletion returns a result exactly when the text from
\* the line start to the cursor ends with "/" and word characters, the "/"
\* starting the line or following a blank; the result runs from that "/"
\* to the cursor and offers exactly the commands whose label contains the
\* typed query, case-insensitively.  The "/" key binding does not handle
\* the key when the selection is not empty or the character before it is
\* not a blank.
C33_SlashCompletion ==
  /\ call.fn = "slashCommandCompletion" =>
       LET b == LineBefore(call.arg.text, call.arg.head)
           S == SlashContexts(b.text)
       IN /\ (call.result # << >>) <=> (S # {})
          /\ \A k \in S :
               LET q == SubSeq(b.text, k + 1, Len(b.text))
                   r == call.result[1]
               IN /\ r.from = b.from + k - 1
                  /\ r.to = call.arg.head
                  /\ \A i \in 1..Len(slashCommands) :
                       ContainsNoCase(slashCommands[i], q)
                         <=> \E j \in 1..Len(r.options) :
                               r.options[j] = slashCommands[i]
                  /\ \A i, j \in 1..Len(r.options) :
                       r.options[i] = r.options[j] => i = j
  /\ call.fn = "slashCommandKeymap" =>
       LET from == Min2(call.arg.anchor, call.arg.head)
       IN (\/ call.arg.anchor # call.arg.head
           \/ (from > 0 /\ call.arg.text[from] \notin WhiteSpace))
          => /\ ~call.result.handled
             /\ call.result.text = call.arg.text

\* The completion was asked after "/O" on the second line of a document
\* and offers the six commands with an "o" in their label.
C33_Witness ==
  /\ call.fn = "slashCommandCompletion"
  /\ call.arg.text = <<NL, "/", "O">>
  /\ call.arg.head = 3
  /\ call.result # << >>
  /\ call.result[1].from = 1
  /\ Len(call.result[1].options) = 6

\* C40: after any sequence of transactions, the empty one included (the
\* freshly created editor state), the decoration set of each syntax-hiding
\* field equals the builder's output for the current document and
\* selection.
C40_FieldFollowsState ==
  /\ hideSyntax = hideSyntaxBuild(State)
  /\ syntaxHiding = buildHidingDecorations(State)

\* C36: two-way binding does not echo.  Content the editor reports
\* (editorDidChangeContent) is written to the binding; a Task of the
\* Coordinator that calls setContent carries text the application wrote,
\* never text the editor reported; and the Coordinator starts such a Task
\* only when the bound text differs from the last content known to have
\* come from or gone to the editor.
C36_NoEcho ==
  [][/\ bridge.delegate' # bridge.delegate
          => coordinator'.textBinding = bridge.delegate'.content
     /\ Len(coordinator'.tasks) < Len(coordinator.tasks)
          => Head(coordinator.tasks).origin = "host"
     /\ Len(coordinator'.tasks) > Len(coordinator.tasks)
          => coordinator.textBinding # coordinator.lastKnownContent]_vars

\* C37: whenever the command palette is active, the character of the
\* document at its trigger position is "/", whatever edits and cursor moves
\* happen between the "/" keydown and the delayed show().
C37_TriggerIsSlash ==
  palette.active => CharAt(DocText(doc), palette.triggerPos) = "/"

\* A step that changes what the page keeps of the last event of the
\* palette: a listener of the palette has run.
PaletteEvent ==
  /\ call'.fn = "handleKey"
  /\ \/ call.fn # "handleKey"
     \/ call'.arg # call.arg
     \/ call'.result # call.result

\* C31: while the palette is active with a non-empty item list, ArrowDown,
\* ArrowUp, Enter, Tab and Escape are consumed by the palette; while it is
\* inactive these keys are not consumed and leave the palette's active
\* flag, selected index, item list and trigger position unchanged.
C31_KeysConsumed ==
  [][(PaletteEvent /\ call'.arg \in Keys) =>
       /\ (palette.active /\ palette.renderItems # << >>)
             => call'.result.consumed
       /\ ~palette.active
             => /\ ~call'.result.consumed
                /\ palette'.active = palette.active
                /\ palette'.selectedIndex = palette.selectedIndex
                /\ palette'.renderItems = palette.renderItems
                /\ palette'.triggerPos = palette.triggerPos]_vars

\* C32: selecting an item of the palette (Enter, Tab or a click) removes
\* the text from the trigger "/" to the cursor, then applies the command of
\* the item once, and leaves the palette inactive: before the step the
\* document has "/" at the trigger position, which is not after the cursor,
\* and after it the document and the selection are those the command gives
\* in the document without that text, with the cursor where the trigger
\* was.
C32_SelectItem ==
  [][(/\ PaletteEvent
      /\ call'.arg \in {"Enter", "Tab", "click"}
      /\ palette.active
      /\ palette.renderItems # << >>) =>
       LET trigger == palette.triggerPos
           from == MainRange(sel).from
           removed == SubSeq(doc.text, 1, trigger)
                        \o SubSeq(doc.text, from + 1, Len(doc.text))
           indices == IF call'.arg = "click"
                      THEN 0..(Len(palette.renderItems) - 1)
                      ELSE {palette.selectedIndex}
       IN /\ trigger <= from
          /\ CharAt(doc.text, trigger) = "/"
          /\ \E index \in indices :
               \E c \in {apply(commands[palette.renderItems[index + 1]].apply,
                                StringDoc(removed),
                                [anchor |-> trigger, head |-> trigger])} :
                 /\ doc'.text = applyChange(removed, c)
                 /\ sel' = [anchor |-> c.anchor, head |-> c.head]
          /\ ~palette'.active]_vars

\* The items of the palette's version whose label, section or shortcut
\* contains the text q, whatever the case of the letters; all of them for
\* the empty text.
Matching(q) ==
  SelectSeq(AllItems("cursor" \in env.parts),
            LAMBDA i : \/ q = << >>
                       \/ ContainsNoCase(commands[i].label, q)
                       \/ ContainsNoCase(commands[i].section, q)
                       \/ ContainsNoCase(commands[i].shortcut, q))

\* C38: after every key event and every editor update the item list of the
\* active palette is the commands matching the text between the trigger
\* "/" and the cursor (all commands when that text is empty); the selected
\* index is 0 when the list is empty and otherwise at least 0 and less
\* than the length of the list; ArrowDown and ArrowUp move it cyclically.
C38_ItemsAndIndex ==
  [][/\ palette'.active =>
          palette'.renderItems =
             Matching(SubSeq(doc'.text, palette'.triggerPos + 2,
                             MainRange(sel').from))
     /\ IF palette'.renderItems = << >> THEN palette'.selectedIndex = 0
        ELSE /\ 0 <= palette'.selectedIndex
             /\ palette'.selectedIndex < Len(palette'.renderItems)
     /\ (PaletteEvent /\ palette.active /\ palette.renderItems # << >>) =>
          /\ call'.arg = "ArrowDown" =>
                palette'.selectedIndex =
                  (palette.selectedIndex + 1) % Len(palette.renderItems)
          /\ call'.arg = "ArrowUp" =>
                palette'.selectedIndex =
                  (palette.selectedIndex + Len(palette.renderItems) - 1)
                     % Len(palette.renderItems)]_vars
====
